---- MODULE Spec2Model ----
(***************************************************************************)
(* Tile cache and rendering-support engine of the heatmap project.         *)
(*                                                                         *)
(* Two MapView classes exist in the repository:                            *)
(*   - src/gui/widgets/map_view.py : MapView on top of the TileCache class *)
(*     (memory tier + filtered tier + disk tier).  Its state is held in    *)
(*     the un-prefixed variables and it runs under Spec.                   *)
(*   - src/main.py : the MapView that keeps plain dictionaries and starts  *)
(*     FilterWorker jobs.  Its state is held in the m_ variables and it    *)
(*     runs under MainSpec.                                                *)
(*                                                                         *)
(* Strings that the code builds with f-strings are sequences of one-       *)
(* character strings, so formatting and parsing are computed.              *)
(* Python dictionaries whose iteration order the code relies on are        *)
(* sequences of [k, v] records in insertion order.                         *)
(***************************************************************************)
EXTENDS Integers, Sequences, FiniteSets, TLC

VARIABLES
    \* ---- gui/widgets/map_view.py : MapView + TileCache ----
    zoom_level,         \* MapView.zoom_level
    pan_x,              \* MapView.pan_x, in units of 1/Unit(zoom_level) pixel
    pan_y,              \* MapView.pan_y, in units of 1/Unit(zoom_level) pixel
    width,              \* MapView.width(), pixels
    height,             \* MapView.height(), pixels
    memory_cache,       \* TileCache.memory_cache  (insertion-ordered dict)
    filtered_cache,     \* TileCache.filtered_cache (insertion-ordered dict)
    disk,               \* files under TileCache.cache_dir: path -> image
    pending_requests,   \* MapView.pending_requests (keys of the dict)
    pending_filters,    \* MapView.pending_filters
    thread_pool,        \* TileFilterWorker jobs handed to MapView.thread_pool
    network,            \* requests handed to network_manager, not yet answered
    fresh,              \* of these, the requests issued since the last clear_cache
    last,               \* the handler that ran last, its arguments and result
    is_panning,         \* MapView.is_panning
    last_mouse_pos,     \* MapView.last_mouse_pos: <<x, y>> in pixels, <<>> for None
    \* ---- main.py : MapView ----
    m_zoom_level,       \* MapView.zoom_level
    m_pan_x,            \* MapView.pan_x, in units of 1/Unit(m_zoom_level) pixel
    m_pan_y,            \* MapView.pan_y, in units of 1/Unit(m_zoom_level) pixel
    m_tile_cache,       \* MapView.tile_cache (dict key -> image)
    m_pending_requests, \* MapView.pending_requests (keys of the dict)
    m_filter_workers,   \* MapView.filter_workers (keys of the dict)
    m_filtered_cache,   \* MapView.filtered_cache (dict filter_key -> image)
    m_current_filter,   \* MapView.current_filter
    m_network,          \* requests handed to network_manager, not yet answered
    m_jobs,             \* FilterWorker jobs handed to the thread pool, not yet reported
    m_last,             \* the handler that ran last, its arguments and result
    \* ---- core/data_manager.py : DataManager ----
    file_registry,      \* DataManager.file_registry (insertion-ordered dict)
    d_last,             \* the method that ran last, its arguments and result
    \* ---- gui/windows/main_window.py : MapWindow (its data_manager is
    \*      file_registry) and core/workers.py : FileWorker ----
    file_list,          \* MapWindow.file_list
    loading_files,      \* MapWindow.loading_files
    file_widgets,       \* the FileWidgets of sidebar.file_layout, in order
    workers,            \* FileWorkers handed to the thread pool, not yet done
    signal_queue,       \* finished/error signals queued for the window
    add_file_btn,       \* sidebar.add_file_btn.isEnabled()
    generate_button,    \* sidebar.generate_button.isEnabled()
    g_last,             \* the window's slot that ran last and its arguments
    \* ---- map_filters.py : MapFilter ----
    f_last,             \* the last call of apply_filter: arguments and result
    \* ---- gui/widgets/map_view.py : the naming of tiles ----
    k_last              \* the last two tiles named: keys, paths, parsed key

\* the mouse state of the widget
pvars == <<is_panning, last_mouse_pos>>

wvars == <<zoom_level, pan_x, pan_y, width, height, memory_cache, filtered_cache, disk,
           pending_requests, pending_filters, thread_pool, network, fresh, last,
           pvars>>

mvars == <<m_zoom_level, m_pan_x, m_pan_y, m_tile_cache, m_pending_requests,
           m_filter_workers, m_filtered_cache, m_current_filter, m_network,
           m_jobs, m_last>>

dvars == <<file_registry, d_last>>

gvars == <<file_list, loading_files, file_widgets, workers, signal_queue,
           add_file_btn, generate_button, g_last>>

\* the variables of the other classes
fvars == <<f_last>>

kvars == <<k_last>>

not_wvars == <<mvars, dvars, gvars, fvars, kvars>>

not_mvars == <<wvars, dvars, gvars, fvars, kvars>>

not_dvars == <<wvars, mvars, gvars, fvars, kvars>>

\* the window owns a DataManager
not_gvars == <<wvars, mvars, fvars, kvars>>

not_fvars == <<wvars, mvars, dvars, gvars, kvars>>

not_kvars == <<wvars, mvars, dvars, gvars, fvars>>

vars == <<wvars, mvars, dvars, gvars, fvars, kvars>>

----------------------------------------------------------------------------
(* Bounds of the model *)

\* capacity of the memory tier (1000 in the source, scaled down)
max_cache_size == 2

\* at most this many unanswered network requests at a time
MaxInFlight == 2

\* at most this many unanswered network requests at a time (main.py)
MainMaxInFlight == 1

\* at most this many unreported filter jobs at a time
MaxJobs == 2

\* the highest zoom level zoom_to accepts
MaxZoom == 19

\* The pan offsets are binary fractions of a pixel: a zoom-out halves the
\* distance to the zoom centre, and the widget starts with whole pixels at
\* a level of at most MaxZoom.  At zoom level z they are whole multiples of
\* 1/Unit(z) pixel, and are kept as that whole number: a pan value p at
\* level z stands for p / Unit(z) pixels.
Unit(z) == 2 ^ (MaxZoom - z)

\* setMinimumSize(1280, 720)
MinWidth == 1280

MinHeight == 720

\* the tiles (x, y, zoom) the viewport asks for
TileCoords == {<<0, 0, 12>>, <<1, 0, 12>>, <<0, 0, 13>>}

\* decoded tile images
Images == {"imgA", "imgB"}

\* decoded tile images (main.py)
MainImages == {"imgA"}

\* targets handed to zoom_to
ZoomTargets == {12, 13}

\* zoom centres (pixels) handed to zoom_to
ZoomCenters == {<<0, 0>>}

----------------------------------------------------------------------------
(* Python values *)

\* Python's None
None == "<None>"

\* str(n) for a non-negative integer
RECURSIVE IntToStr(_)
IntToStr(n) ==
    LET d == <<"0", "1", "2", "3", "4", "5", "6", "7", "8", "9">>
    IN  IF n < 10 THEN <<d[n + 1]>>
        ELSE IntToStr(n \div 10) \o <<d[(n % 10) + 1]>>

\* value of one decimal digit character
DigitVal(c) ==
    CASE c = "0" -> 0 [] c = "1" -> 1 [] c = "2" -> 2 [] c = "3" -> 3
      [] c = "4" -> 4 [] c = "5" -> 5 [] c = "6" -> 6 [] c = "7" -> 7
      [] c = "8" -> 8 [] c = "9" -> 9

\* int(s) for a string of decimal digits
RECURSIVE StrToInt(_)
StrToInt(s) ==
    IF Len(s) = 1 THEN DigitVal(s[1])
    ELSE StrToInt(SubSeq(s, 1, Len(s) - 1)) * 10 + DigitVal(s[Len(s)])

\* s.split("_")
RECURSIVE Split(_)
Split(s) ==
    IF \A i \in DOMAIN s : s[i] # "_" THEN <<s>>
    ELSE LET i == CHOOSE j \in DOMAIN s :
                      s[j] = "_" /\ \A h \in 1..(j - 1) : s[h] # "_"
         IN  <<SubSeq(s, 1, i - 1)>> \o Split(SubSeq(s, i + 1, Len(s)))

\* insertion-ordered dict: keys, membership, lookup, assignment
DictKeys(d) == {d[i].k : i \in DOMAIN d}

DictGet(d, key) == d[CHOOSE i \in DOMAIN d : d[i].k = key].v

DictSet(d, key, value) ==
    IF key \in DictKeys(d)
    THEN [i \in DOMAIN d |-> IF d[i].k = key THEN [k |-> key, v |-> value]
                                             ELSE d[i]]
    ELSE Append(d, [k |-> key, v |-> value])

----------------------------------------------------------------------------
(* gui/widgets/map_view.py : TileCache *)

\* MapView.tile_key / MapView._cache_key : f"{zoom}_{x}_{y}"
tile_key(x, y, zoom) ==
    IntToStr(zoom) \o <<"_">> \o IntToStr(x) \o <<"_">> \o IntToStr(y)

\* the file name without the separators between the numbers
get_tile_path_unseparated(x, y, zoom) ==
    <<"tile_">> \o IntToStr(zoom) \o IntToStr(x) \o IntToStr(y) \o <<".png">>

\* TileCache.get_tile_path : cache_dir / f"tile_{zoom}_{x}_{y}.png"
get_tile_path(x, y, zoom) ==
    <<"tile_">> \o IntToStr(zoom) \o <<"_">> \o IntToStr(x) \o <<"_">>
        \o IntToStr(y) \o <<".png">>

\* MapView.handle_tile_response : zoom, x, y = map(int, key.split("_"))
parse_key(key) ==
    LET parts == Split(key)
    IN  <<StrToInt(parts[1]), StrToInt(parts[2]), StrToInt(parts[3])>>

\* k_last: a, b        two tiles <<zoom, x, y>>
\*         key_a, key_b their memory-cache keys
\*         path_a, path_b their file names in the disk tier
\*         parsed_a    what handle_tile_response parses from key_a
KNoLast == [op |-> "init", a |-> <<>>, b |-> <<>>, key_a |-> <<>>,
            key_b |-> <<>>, path_a |-> <<>>, path_b |-> <<>>,
            parsed_a |-> <<>>]

\* two tiles are named as request_tile and TileCache name them, and the
\* first key is parsed as handle_tile_response parses it
NameTiles(a, b) ==
    /\ k_last' = [op |-> "name_tiles", a |-> a, b |-> b,
                  key_a |-> tile_key(a[2], a[3], a[1]),
                  key_b |-> tile_key(b[2], b[3], b[1]),
                  path_a |-> get_tile_path(a[2], a[3], a[1]),
                  path_b |-> get_tile_path(b[2], b[3], b[1]),
                  parsed_a |-> parse_key(tile_key(a[2], a[3], a[1]))]
    /\ UNCHANGED not_kvars

Keys == {tile_key(t[1], t[2], t[3]) : t \in TileCoords}

Paths == {get_tile_path(t[1], t[2], t[3]) : t \in TileCoords}

\* __setitem__ without the eviction
SetItemNoEviction(mem, filt, key, value) ==
    [memory |-> DictSet(mem, key, value), filtered |-> filt,
     raised |-> FALSE]

\* TileCache.__setitem__ : at capacity the first key of memory_cache and the
\* first key of filtered_cache are popped; next(iter({})) on an empty
\* filtered_cache raises StopIteration after memory_cache was popped and
\* before the new entry is stored.
SetItem(mem, filt, key, value) ==
    IF Len(mem) >= max_cache_size
    THEN IF filt = <<>>
         THEN [memory |-> Tail(mem), filtered |-> filt, raised |-> TRUE]
         ELSE [memory |-> DictSet(Tail(mem), key, value),
               filtered |-> Tail(filt), raised |-> FALSE]
    ELSE [memory |-> DictSet(mem, key, value), filtered |-> filt,
          raised |-> FALSE]

\* a disk tier whose files are never found
disk_get_tile_never_found(dsk, x, y, zoom) == None

\* TileCache.get_tile : the image stored at the tile's path, or None
disk_get_tile(dsk, x, y, zoom) == dsk[get_tile_path(x, y, zoom)]

\* TileCache.save_tile : image.save(path); ok is the result of the write
save_tile(dsk, x, y, zoom, image, ok) ==
    IF ok THEN [dsk EXCEPT ![get_tile_path(x, y, zoom)] = image] ELSE dsk

----------------------------------------------------------------------------
(* gui/widgets/map_view.py : MapView *)

\* last: op      the handler that ran
\*       key     the tile key it was called for
\*       outcome the kind of reply handle_tile_response was given
\*       ret     the value get_tile returned
\*       issued  network_manager.get was called
\*       stored  the image handed to TileCache.__setitem__ (None: not called)
\*       raised  TileCache.__setitem__ raised and the handler was abandoned
\*       write_failed save_tile was called and the file write failed
\*       retry   the handler that ran before was a failed reply for key
\*       zoom_from the level zoom_to changed from
\*       pan_from  <<pan_x, pan_y>> before zoom_to changed them
\*       back    zoom_to went back to the level the zoom_to just before it
\*               had left, around the same point
\*       target  the level zoom_to was called with, before clamping
\*       pos     event.position() of a mouse event, in pixels
\*       dropped the number of base tiles clear_cache removed from memory
\*       stale   the reply handled answers a request issued before the last
\*               clear_cache
\*       center  the point zoom_to zoomed around
\*       asked   the tiles <<x, y, zoom>> paintEvent handed to get_tile, in
\*               call order
\*       read_disk get_tile called TileCache.get_tile
NoLast == [op |-> "init", key |-> <<>>, outcome |-> None, ret |-> None,
           issued |-> FALSE, stored |-> None, raised |-> FALSE,
           write_failed |-> FALSE, retry |-> FALSE, zoom_from |-> None,
           center |-> <<>>, asked |-> <<>>, read_disk |-> FALSE,
           target |-> None, pos |-> <<>>, dropped |-> 0,
           stale |-> FALSE, pan_from |-> <<>>, back |-> FALSE]

\* number of unanswered requests
RECURSIVE SumOver(_, _)
SumOver(f, S) ==
    IF S = {} THEN 0
    ELSE LET k == CHOOSE e \in S : TRUE IN f[k] + SumOver(f, S \ {k})

InFlight(net) == SumOver(net, DOMAIN net)

\* the requests issued since the last clear, after a handler that issued
\* the requests by which net2 exceeds net
IssuedAdded(fr, net, net2) ==
    [k \in DOMAIN fr |-> fr[k] + net2[k] - net[k]]

\* clear_memory dropping all but the newest base tile
clear_memory_keeps_newest(mem, filt) ==
    [memory |-> IF mem = <<>> THEN mem ELSE <<mem[Len(mem)]>>,
     filtered |-> <<>>]

\* TileCache.clear_memory : both dicts are cleared, no file is touched
clear_memory(mem, filt) == [memory |-> <<>>, filtered |-> <<>>]

\* clear_cache without pending_requests.clear()
clear_cache_keeps_pending ==
    /\ pending_filters' = {}
    /\ UNCHANGED pending_requests
    /\ fresh' = [k \in DOMAIN fresh |-> 0]
    /\ memory_cache' = clear_memory(memory_cache, filtered_cache).memory
    /\ filtered_cache' = clear_memory(memory_cache, filtered_cache).filtered

\* MapView.clear_cache
clear_cache ==
    /\ pending_filters' = {}
    /\ pending_requests' = {}
    /\ fresh' = [k \in DOMAIN fresh |-> 0]
    /\ memory_cache' = clear_memory(memory_cache, filtered_cache).memory
    /\ filtered_cache' = clear_memory(memory_cache, filtered_cache).filtered

\* request_tile without the test of pending_requests
request_issues_ignoring_pending(mem, pend, key) ==
    ~(key \in DictKeys(mem))

\* MapView.request_tile : TRUE when a request is issued
request_issues(mem, pend, key) ==
    ~(key \in DictKeys(mem) \/ key \in pend)

\* MapView.get_tile
GetTile(x, y, zoom) ==
    LET key == tile_key(x, y, zoom)
        onDisk == disk_get_tile(disk, x, y, zoom)
        retry == /\ last.op = "handle_tile_response"
                 /\ last.outcome # "ok"
                 /\ last.key = key
        done(ret, issued, stored, raised) ==
            last' = [NoLast EXCEPT !.op = "get_tile", !.key = key,
                                   !.ret = ret, !.issued = issued,
                                   !.stored = stored, !.raised = raised,
                                   !.retry = retry,
                                   !.read_disk =
                                       ~(key \in DictKeys(filtered_cache)
                                         \/ key \in DictKeys(memory_cache))]
    IN  /\ IF key \in DictKeys(filtered_cache)
           THEN /\ done(DictGet(filtered_cache, key), FALSE, None, FALSE)
                /\ UNCHANGED <<memory_cache, filtered_cache,
                               pending_requests, network>>
           ELSE IF key \in DictKeys(memory_cache)
           THEN /\ done(DictGet(memory_cache, key), FALSE, None, FALSE)
                /\ UNCHANGED <<memory_cache, filtered_cache,
                               pending_requests, network>>
           ELSE IF onDisk # None
           THEN LET r == SetItem(memory_cache, filtered_cache, key, onDisk)
                IN  /\ memory_cache' = r.memory
                    /\ filtered_cache' = r.filtered
                    /\ done(IF r.raised THEN None ELSE onDisk, FALSE,
                            onDisk, r.raised)
                    /\ UNCHANGED <<pending_requests, network>>
           ELSE IF request_issues(memory_cache, pending_requests, key)
           THEN /\ InFlight(network) < MaxInFlight
                /\ pending_requests' = pending_requests \cup {key}
                /\ network' = [network EXCEPT ![key] = @ + 1]
                /\ done(None, TRUE, None, FALSE)
                /\ UNCHANGED <<memory_cache, filtered_cache>>
           ELSE /\ done(None, FALSE, None, FALSE)
                /\ UNCHANGED <<memory_cache, filtered_cache,
                               pending_requests, network>>
        /\ fresh' = IssuedAdded(fresh, network, network')
        /\ UNCHANGED <<zoom_level, pan_x, pan_y, width, height, disk,
                       pending_filters, thread_pool>>
        /\ UNCHANGED <<pvars, not_wvars>>

\* handle_tile_response without the deletion of the pending entry
PendingAfterReplyKept(pend, key, raised) == pend

\* MapView.handle_tile_response, its last statement:
\* if key in self.pending_requests: del self.pending_requests[key]
\* (not reached when __setitem__ raised)
PendingAfterReply(pend, key, raised) ==
    IF raised THEN pend ELSE pend \ {key}

\* MapView.handle_tile_response : outcome is "ok" (NoError and the bytes
\* decode to image), "undecodable" (NoError, image.isNull()) or "error";
\* save_ok is the result of writing the file.
HandleTileResponse(key, outcome, image, save_ok) ==
    LET zoom == parse_key(key)[1]
        x == parse_key(key)[2]
        y == parse_key(key)[3]
        r == SetItem(memory_cache, filtered_cache, key, image)
        raised == outcome = "ok" /\ r.raised
    IN  /\ network[key] > 0
        /\ network' = [network EXCEPT ![key] = @ - 1]
        /\ IF outcome = "ok"
           THEN /\ memory_cache' = r.memory
                /\ filtered_cache' = r.filtered
                /\ disk' = IF r.raised THEN disk
                           ELSE save_tile(disk, x, y, zoom, image, save_ok)
           ELSE UNCHANGED <<memory_cache, filtered_cache, disk>>
        /\ pending_requests' = PendingAfterReply(pending_requests, key, raised)
        /\ \E stale \in BOOLEAN :
              /\ IF stale THEN network[key] > fresh[key] ELSE fresh[key] > 0
              /\ fresh' = IF stale THEN fresh
                          ELSE [fresh EXCEPT ![key] = @ - 1]
              /\ last' = [NoLast EXCEPT !.op = "handle_tile_response",
                                        !.key = key, !.outcome = outcome,
                                        !.stored = IF outcome = "ok"
                                                   THEN image ELSE None,
                                        !.raised = raised,
                                        !.write_failed = outcome = "ok"
                                                  /\ ~raised /\ ~save_ok,
                                        !.stale = stale]
        /\ UNCHANGED <<zoom_level, pan_x, pan_y, width, height,
                       pending_filters, thread_pool>>
        /\ UNCHANGED <<pvars, not_wvars>>

\* world * 2 ** (to - from): v counts 1/Unit(from) pixel, the product counts
\* 1/Unit(to) pixel.  (v / Unit(from)) * 2^(to - from) = v / Unit(to), so the
\* product is the same whole number in the unit of the new level.
Scale(v, from, to) == v

\* the clamp without its lower limit
ClampZoomNoLower(new_zoom) ==
    IF new_zoom < MaxZoom THEN new_zoom ELSE MaxZoom

\* max(0, min(19, new_zoom))
ClampZoom(new_zoom) ==
    LET m == IF new_zoom < MaxZoom THEN new_zoom ELSE MaxZoom
    IN  IF m > 0 THEN m ELSE 0

\* the pan update anchored at the widget's origin instead of the centre
new_pan_about_origin(center, pan, z, nz) == Scale(pan, z, nz)

\* the pan update with the world point left unscaled when zooming out
new_pan_unscaled_zoom_out(center, pan, z, nz) ==
    LET world == center * Unit(z) - pan
        new_world == IF nz >= z THEN Scale(world, z, nz)
                     ELSE world * 2 ^ (z - nz)
    IN  center * Unit(nz) - new_world

\* world = center - pan; new_world = world * scale_factor;
\* pan = center - new_world
new_pan(center, pan, z, nz) ==
    LET world == center * Unit(z) - pan
        new_world == Scale(world, z, nz)
    IN  center * Unit(nz) - new_world

\* zoom_to without the early return for an unchanged level
ZoomToWithoutEarlyReturn(new_zoom, center_x, center_y) ==
    LET nz == ClampZoom(new_zoom)
    IN  /\ pan_x' = new_pan(center_x, pan_x, zoom_level, nz)
        /\ pan_y' = new_pan(center_y, pan_y, zoom_level, nz)
        /\ zoom_level' = nz
        /\ clear_cache
        /\ last' = [NoLast EXCEPT !.op = "zoom_to",
                                  !.zoom_from = zoom_level,
                                  !.center = <<center_x, center_y>>,
                                  !.target = new_zoom]
        /\ UNCHANGED <<width, height, disk, network, thread_pool>>
        /\ UNCHANGED <<pvars, not_wvars>>

\* MapView.zoom_to
ZoomTo(new_zoom, center_x, center_y) ==
    LET nz == ClampZoom(new_zoom)
    IN  /\ IF nz = zoom_level
           THEN /\ UNCHANGED <<zoom_level, pan_x, pan_y, memory_cache,
                               filtered_cache, pending_requests,
                               pending_filters, fresh>>
                /\ last' = [NoLast EXCEPT !.op = "zoom_to_noop",
                                          !.target = new_zoom]
           ELSE /\ pan_x' = new_pan(center_x, pan_x, zoom_level, nz)
                /\ pan_y' = new_pan(center_y, pan_y, zoom_level, nz)
                /\ zoom_level' = nz
                /\ clear_cache
                /\ last' = [NoLast EXCEPT !.op = "zoom_to",
                                          !.zoom_from = zoom_level,
                                          !.center = <<center_x, center_y>>,
                                          !.target = new_zoom,
                                          !.dropped = Len(memory_cache),
                                          !.pan_from = <<pan_x, pan_y>>,
                                          !.back =
                                              /\ last.op = "zoom_to"
                                              /\ last.zoom_from = nz
                                              /\ last.center =
                                                    <<center_x, center_y>>]
        /\ UNCHANGED <<width, height, disk, network, thread_pool>>
        /\ UNCHANGED <<pvars, not_wvars>>

\* MapView.zoom_in
ZoomIn == ZoomTo(zoom_level + 1, width \div 2, height \div 2)

\* MapView.zoom_out
ZoomOut == ZoomTo(zoom_level - 1, width \div 2, height \div 2)

\* MapView.wheelEvent : delta is event.angleDelta().y(), (x, y) the mouse
\* position
WheelEvent(delta, x, y) ==
    LET zoom_change == IF delta > 0 THEN 1 ELSE IF delta < 0 THEN -1 ELSE 0
    IN  ZoomTo(zoom_level + zoom_change, x, y)

\* tile_size = 256
tile_size == 256

\* int(n / d) for d > 0 : Python's int() truncates toward zero
PyInt(n, d) == IF n >= 0 THEN n \div d ELSE -((-n) \div d)

\* the first index with one added
range_start_next(viewport_lo, z) ==
    LET i == PyInt(viewport_lo, tile_size * Unit(z)) + 1
    IN  IF i > 0 THEN i ELSE 0

\* start_x = max(0, int(viewport_left / tile_size)), and start_y likewise;
\* viewport_lo counts 1/Unit(z) pixel
range_start(viewport_lo, z) ==
    LET i == PyInt(viewport_lo, tile_size * Unit(z))
    IN  IF i > 0 THEN i ELSE 0

\* the last index without min(scale - 1, ...)
range_end_unclamped(viewport_hi, z) ==
    PyInt(viewport_hi, tile_size * Unit(z)) + 1

\* end_x = min(scale - 1, int(viewport_right / tile_size) + 1), and end_y
\* likewise, with scale = 2 ** zoom_level
range_end(viewport_hi, z) ==
    LET scale == 2 ^ z
        i == PyInt(viewport_hi, tile_size * Unit(z)) + 1
    IN  IF i < scale - 1 THEN i ELSE scale - 1

\* for x in range(start_x, end_x + 1): for y in range(start_y, end_y + 1):
\* the tiles in the order of the calls
visible_tiles(z, px, py, w, h) ==
    LET viewport_left == -px
        viewport_top == -py
        viewport_right == viewport_left + w * Unit(z)
        viewport_bottom == viewport_top + h * Unit(z)
        start_x == range_start(viewport_left, z)
        start_y == range_start(viewport_top, z)
        end_x == range_end(viewport_right, z)
        end_y == range_end(viewport_bottom, z)
        nx == IF end_x >= start_x THEN end_x - start_x + 1 ELSE 0
        ny == IF end_y >= start_y THEN end_y - start_y + 1 ELSE 0
    IN  [i \in 1..(nx * ny) |->
            <<start_x + ((i - 1) \div ny), start_y + ((i - 1) % ny), z>>]

\* MapView.get_tile as one step of the viewport pass: s holds the two memory
\* maps, pending_requests, the unanswered requests, whether __setitem__
\* raised, and the tiles asked so far
get_tile_step(s, dsk, x, y, zoom) ==
    LET key == tile_key(x, y, zoom)
        onDisk == disk_get_tile(dsk, x, y, zoom)
        t == [s EXCEPT !.asked = Append(@, <<x, y, zoom>>)]
    IN  IF key \in DictKeys(s.filtered) \/ key \in DictKeys(s.memory)
        THEN t
        ELSE IF onDisk # None
        THEN LET r == SetItem(s.memory, s.filtered, key, onDisk)
             IN  [t EXCEPT !.memory = r.memory, !.filtered = r.filtered,
                           !.raised = r.raised]
        ELSE IF request_issues(s.memory, s.pending, key)
        THEN [t EXCEPT !.pending = @ \cup {key},
                       !.network = [@ EXCEPT ![key] = @ + 1]]
        ELSE t

\* the double loop of paintEvent from its i-th call of get_tile on; an
\* exception out of get_tile ends the pass
RECURSIVE paint_tiles(_, _, _, _)
paint_tiles(s, dsk, tiles, i) ==
    IF i > Len(tiles) \/ s.raised THEN s
    ELSE paint_tiles(get_tile_step(s, dsk, tiles[i][1], tiles[i][2],
                                   tiles[i][3]),
                     dsk, tiles, i + 1)

\* MapView.paintEvent
PaintEvent ==
    LET tiles == visible_tiles(zoom_level, pan_x, pan_y, width, height)
        s == paint_tiles([memory |-> memory_cache,
                          filtered |-> filtered_cache,
                          pending |-> pending_requests,
                          network |-> network,
                          raised |-> FALSE, asked |-> <<>>],
                         disk, tiles, 1)
    IN  /\ memory_cache' = s.memory
        /\ filtered_cache' = s.filtered
        /\ pending_requests' = s.pending
        /\ network' = s.network
        /\ last' = [NoLast EXCEPT !.op = "paintEvent",
                                  !.raised = s.raised,
                                  !.asked = s.asked]
        /\ fresh' = IssuedAdded(fresh, network, network')
        /\ UNCHANGED <<zoom_level, pan_x, pan_y, width, height, disk,
                       pending_filters, thread_pool>>
        /\ UNCHANGED <<pvars, not_wvars>>

\* MapView.resizeEvent : Qt has set the new size; the handler only lays the
\* overlay out again
ResizeEvent(w, h) ==
    /\ width' = w
    /\ height' = h
    /\ last' = [NoLast EXCEPT !.op = "resizeEvent"]
    /\ UNCHANGED <<zoom_level, pan_x, pan_y, memory_cache, filtered_cache,
                   disk, pending_requests, pending_filters, thread_pool,
                   network, fresh>>
    /\ UNCHANGED <<pvars, not_wvars>>

\* event.button() of a mouse event
Buttons == {"left", "right"}

\* bool(p) for p None or a QPointF: None and the null point (0, 0) are false
PointBool(p) == p # <<>> /\ p # <<0, 0>>

\* MapView.mousePressEvent
MousePressEvent(button, pos) ==
    /\ IF button = "left"
       THEN /\ is_panning' = TRUE
            /\ last_mouse_pos' = pos
       ELSE UNCHANGED <<is_panning, last_mouse_pos>>
    /\ last' = [NoLast EXCEPT !.op = "mousePressEvent", !.pos = pos]
    /\ UNCHANGED <<zoom_level, pan_x, pan_y, width, height, memory_cache,
                   filtered_cache, disk, pending_requests, pending_filters,
                   thread_pool, network, fresh>>
    /\ UNCHANGED not_wvars

\* MapView.mouseReleaseEvent
MouseReleaseEvent(button) ==
    /\ IF button = "left"
       THEN is_panning' = FALSE
       ELSE UNCHANGED is_panning
    /\ last' = [NoLast EXCEPT !.op = "mouseReleaseEvent"]
    /\ UNCHANGED <<zoom_level, pan_x, pan_y, width, height, memory_cache,
                   filtered_cache, disk, pending_requests, pending_filters,
                   thread_pool, network, fresh, last_mouse_pos>>
    /\ UNCHANGED not_wvars

\* MapView.mouseMoveEvent : delta = event.position() - last_mouse_pos
MouseMoveEvent(pos) ==
    /\ IF is_panning /\ PointBool(last_mouse_pos)
       THEN /\ pan_x' = pan_x + (pos[1] - last_mouse_pos[1]) * Unit(zoom_level)
            /\ pan_y' = pan_y + (pos[2] - last_mouse_pos[2]) * Unit(zoom_level)
            /\ last_mouse_pos' = pos
       ELSE UNCHANGED <<pan_x, pan_y, last_mouse_pos>>
    /\ last' = [NoLast EXCEPT !.op = "mouseMoveEvent", !.pos = pos]
    /\ UNCHANGED <<zoom_level, width, height, memory_cache, filtered_cache,
                   disk, pending_requests, pending_filters, thread_pool,
                   network, fresh, is_panning>>
    /\ UNCHANGED not_wvars

----------------------------------------------------------------------------
(* map_filters.py : MapFilter *)

\* the filter names offered to set_filter
FilterNames == {"None", "Sepia"}

\* MapFilter.no_filter
no_filter(image) == image

\* MapFilter.sepia : a new image computed from the pixels of the input
sepia(image) ==
    CASE image = "imgA" -> "sepia(imgA)"
      [] image = "imgB" -> "sepia(imgB)"
      [] OTHER -> "sepia(sepia)"

\* MapFilter.apply_filter
apply_filter(image, filter_name) ==
    IF filter_name \notin FilterNames THEN image
    ELSE IF filter_name = "None" THEN no_filter(image)
    ELSE sepia(image)

\* ---- apply_filter on images with pixels ----
\* An image is a sequence of pixels <<red, green, blue, alpha>>.

\* f_last: image, filter_name  the arguments of apply_filter
\*         called   the function stored in FILTERS was called
\*         failed   that call raised an Exception
\*         ret      the image apply_filter returned (None: it returned
\*                  nothing)
\*         raised   the exception apply_filter let out, or None
FNoLast == [op |-> "init", image |-> <<>>, filter_name |-> None,
            called |-> FALSE, failed |-> FALSE, ret |-> <<>>,
            raised |-> None]

\* the keys of MapFilter.FILTERS
FILTERS ==
    {"None", "Night Mode", "Sepia", "Cool Tone", "Warm Tone",
     "High Contrast", "Muted"}

\* min(int(x), 255) for x >= 0 given in thousandths
Channel(thousandths) ==
    IF thousandths \div 1000 < 255 THEN thousandths \div 1000 ELSE 255

\* MapFilter.sepia, the colour it sets for one pixel
sepia_pixel(p) ==
    <<Channel(393 * p[1] + 769 * p[2] + 189 * p[3]),
      Channel(349 * p[1] + 686 * p[2] + 168 * p[3]),
      Channel(272 * p[1] + 534 * p[2] + 131 * p[3]),
      p[4]>>

\* MapFilter.sepia on an image with pixels
sepia_image(image) == [i \in DOMAIN image |-> sepia_pixel(image[i])]

\* cls.FILTERS[filter_name](image) when the call returns
filter_call(image, filter_name) ==
    CASE filter_name = "None" -> no_filter(image)
      [] filter_name = "Sepia" -> sepia_image(image)

\* apply_filter without its try/except
apply_filter_no_except(image, filter_name, fails) ==
    IF filter_name \notin FILTERS
    THEN [called |-> FALSE, ret |-> image, raised |-> None]
    ELSE IF fails
    THEN [called |-> TRUE, ret |-> None, raised |-> "Exception"]
    ELSE [called |-> TRUE, ret |-> filter_call(image, filter_name),
          raised |-> None]

\* MapFilter.apply_filter : fails says that the call of the stored function
\* raises an Exception (the transform itself, or a staticmethod object that
\* the interpreter cannot call)
apply_filter_try(image, filter_name, fails) ==
    IF filter_name \notin FILTERS
    THEN [called |-> FALSE, ret |-> image, raised |-> None]
    ELSE IF fails
    THEN [called |-> TRUE, ret |-> image, raised |-> None]
    ELSE [called |-> TRUE, ret |-> filter_call(image, filter_name),
          raised |-> None]

\* MapFilter.apply_filter
ApplyFilter(image, filter_name, fails) ==
    LET r == apply_filter_try(image, filter_name, fails)
    IN  /\ f_last' = [FNoLast EXCEPT
                         !.op = "apply_filter", !.image = image,
                         !.filter_name = filter_name, !.called = r.called,
                         !.failed = r.called /\ fails, !.ret = r.ret,
                         !.raised = r.raised]
        /\ UNCHANGED not_fvars

----------------------------------------------------------------------------
(* main.py : MapView *)

\* dict assignment d[key] = value for a dict whose order is not used
FnSet(d, key, value) ==
    [x \in (DOMAIN d) \cup {key} |-> IF x = key THEN value ELSE d[x]]

\* str(current_filter) inside an f-string
FilterStr(f) == IF f = None THEN "None" ELSE f

\* f"{key}_{self.current_filter}"
filter_key(key, f) == key \o <<"_">> \o <<FilterStr(f)>>

MNoLast == [op |-> "init", key |-> <<>>, ret |-> None, issued |-> FALSE,
            started |-> FALSE, running |-> FALSE]

\* the filter keys of the jobs that are in flight
JobKeys(jobs) == {j.key : j \in DOMAIN jobs}

\* number of jobs in flight
JobCount(jobs) == SumOver(jobs, DOMAIN jobs)

\* threadpool.start(worker)
JobStart(jobs, j) ==
    IF j \in DOMAIN jobs THEN [jobs EXCEPT ![j] = @ + 1]
    ELSE FnSet(jobs, j, 1)

\* the worker has emitted finished
JobEnd(jobs, j) ==
    IF jobs[j] > 1 THEN [jobs EXCEPT ![j] = @ - 1]
    ELSE [x \in (DOMAIN jobs) \ {j} |-> jobs[x]]

\* MapView.clear_cache (main.py)
m_clear_cache ==
    /\ m_tile_cache' = <<>>
    /\ m_pending_requests' = {}
    /\ m_filter_workers' = {}

\* MapView.get_tile (main.py)
MGetTile(x, y, zoom) ==
    LET key == tile_key(x, y, zoom)
        fkey == filter_key(key, m_current_filter)
        job == [key |-> fkey, image |-> m_tile_cache[key],
                filter_name |-> m_current_filter]
        done(ret, issued, started, running) ==
            m_last' = [MNoLast EXCEPT !.op = "get_tile", !.key = key,
                                      !.ret = ret, !.issued = issued,
                                      !.started = started,
                                      !.running = running]
    IN  /\ IF fkey \in DOMAIN m_filtered_cache
           THEN /\ done(m_filtered_cache[fkey], FALSE, FALSE, FALSE)
                /\ UNCHANGED <<m_pending_requests, m_network,
                               m_filter_workers, m_jobs>>
           ELSE IF key \notin DOMAIN m_tile_cache
           THEN IF key \notin m_pending_requests
                THEN /\ InFlight(m_network) < MainMaxInFlight
                     /\ m_pending_requests' = m_pending_requests \cup {key}
                     /\ m_network' = [m_network EXCEPT ![key] = @ + 1]
                     /\ done(None, TRUE, FALSE, FALSE)
                     /\ UNCHANGED <<m_filter_workers, m_jobs>>
                ELSE /\ done(None, FALSE, FALSE, FALSE)
                     /\ UNCHANGED <<m_pending_requests, m_network,
                                    m_filter_workers, m_jobs>>
           ELSE IF m_current_filter = "None"
           THEN /\ done(m_tile_cache[key], FALSE, FALSE, FALSE)
                /\ UNCHANGED <<m_pending_requests, m_network,
                               m_filter_workers, m_jobs>>
           ELSE IF fkey \notin m_filter_workers
           THEN /\ JobCount(m_jobs) < MaxJobs
                /\ m_filter_workers' = m_filter_workers \cup {fkey}
                /\ m_jobs' = JobStart(m_jobs, job)
                /\ done(m_tile_cache[key], FALSE, TRUE,
                        fkey \in JobKeys(m_jobs))
                /\ UNCHANGED <<m_pending_requests, m_network>>
           ELSE /\ done(m_tile_cache[key], FALSE, FALSE, FALSE)
                /\ UNCHANGED <<m_pending_requests, m_network,
                               m_filter_workers, m_jobs>>
        /\ UNCHANGED <<m_zoom_level, m_pan_x, m_pan_y, m_tile_cache,
                       m_filtered_cache, m_current_filter>>
        /\ UNCHANGED not_mvars

\* MapView.handle_tile_response (main.py)
MHandleTileResponse(key, outcome, image) ==
    /\ m_network[key] > 0
    /\ m_network' = [m_network EXCEPT ![key] = @ - 1]
    /\ m_tile_cache' = IF outcome = "ok" THEN FnSet(m_tile_cache, key, image)
                       ELSE m_tile_cache
    /\ m_pending_requests' = m_pending_requests \ {key}
    /\ m_last' = [MNoLast EXCEPT !.op = "handle_tile_response", !.key = key,
                                 !.ret = IF outcome = "ok" THEN image
                                         ELSE None]
    /\ UNCHANGED <<m_zoom_level, m_pan_x, m_pan_y, m_filter_workers,
                   m_filtered_cache, m_current_filter, m_jobs>>
    /\ UNCHANGED not_mvars

\* FilterWorker.run followed by MapView.process_filtered_tile
ProcessFilteredTile(j) ==
    LET filtered == apply_filter(j.image, j.filter_name)
    IN  /\ j \in DOMAIN m_jobs
        /\ m_jobs' = JobEnd(m_jobs, j)
        /\ m_filtered_cache' = FnSet(m_filtered_cache, j.key, filtered)
        /\ m_filter_workers' = m_filter_workers \ {j.key}
        /\ m_last' = [MNoLast EXCEPT !.op = "process_filtered_tile",
                                     !.key = j.key, !.ret = filtered]
        /\ UNCHANGED <<m_zoom_level, m_pan_x, m_pan_y, m_tile_cache,
                       m_pending_requests, m_current_filter, m_network>>
        /\ UNCHANGED not_mvars

\* MapView.set_filter
SetFilter(filter_name) ==
    /\ IF m_current_filter # filter_name
       THEN /\ m_current_filter' = filter_name
            /\ m_filtered_cache' = <<>>
            /\ m_filter_workers' = {}
            /\ m_last' = [MNoLast EXCEPT !.op = "set_filter"]
       ELSE /\ UNCHANGED <<m_current_filter, m_filtered_cache,
                           m_filter_workers>>
            /\ m_last' = [MNoLast EXCEPT !.op = "set_filter_noop"]
    /\ UNCHANGED <<m_zoom_level, m_pan_x, m_pan_y, m_tile_cache,
                   m_pending_requests, m_network, m_jobs>>
    /\ UNCHANGED not_mvars

\* MapView.zoom_to (main.py)
MZoomTo(new_zoom, center_x, center_y) ==
    LET nz == ClampZoom(new_zoom)
    IN  /\ IF nz = m_zoom_level
           THEN /\ UNCHANGED <<m_zoom_level, m_pan_x, m_pan_y, m_tile_cache,
                               m_pending_requests, m_filter_workers>>
                /\ m_last' = [MNoLast EXCEPT !.op = "zoom_to_noop"]
           ELSE /\ m_pan_x' = new_pan(center_x, m_pan_x, m_zoom_level, nz)
                /\ m_pan_y' = new_pan(center_y, m_pan_y, m_zoom_level, nz)
                /\ m_zoom_level' = nz
                /\ m_clear_cache
                /\ m_last' = [MNoLast EXCEPT !.op = "zoom_to"]
        /\ UNCHANGED <<m_filtered_cache, m_current_filter, m_network, m_jobs>>
        /\ UNCHANGED not_mvars

----------------------------------------------------------------------------
(* core/data_manager.py : DataManager.  A point is <<lat, lon>>, points a
   sequence of them; file_registry maps a file path to
   [points, bounds]. *)

\* d_last: op        the method that ran
\*         file_path, points, selection   its arguments
\*         existed   add_file or remove_file was called for a path that had a
\*                   record
\*         raised    the exception it raised, or None
\*         result    the list get_points_in_bounds returned
\*         scanned   the paths of the records whose point list
\*                   get_points_in_bounds ran _point_in_bounds over
DNoLast == [op |-> "init", file_path |-> None, points |-> <<>>,
            selection |-> None, existed |-> FALSE, raised |-> None,
            result |-> <<>>, scanned |-> <<>>]

\* min(values) and max(values) of a non-empty list
PyMin(values) ==
    CHOOSE m \in {values[i] : i \in DOMAIN values} :
        \A i \in DOMAIN values : m <= values[i]

PyMax(values) ==
    CHOOSE m \in {values[i] : i \in DOMAIN values} :
        \A i \in DOMAIN values : m >= values[i]

\* DataManager._calculate_bounds
calculate_bounds(points) ==
    LET lats == [i \in DOMAIN points |-> points[i][1]]
        lons == [i \in DOMAIN points |-> points[i][2]]
    IN  [min_lat |-> PyMin(lats), max_lat |-> PyMax(lats),
         min_lon |-> PyMin(lons), max_lon |-> PyMax(lons)]

\* the pre-filter with a file whose box only touches the selection left out
bounds_overlap_strict(file_bounds, selection_bounds) ==
    ~ \/ file_bounds.max_lat <= selection_bounds.sw[1]
      \/ file_bounds.min_lat >= selection_bounds.nw[1]
      \/ file_bounds.max_lon <= selection_bounds.nw[2]
      \/ file_bounds.min_lon >= selection_bounds.ne[2]

\* the pre-filter that lets every file through
bounds_overlap_always(file_bounds, selection_bounds) == TRUE

\* DataManager._bounds_overlap
bounds_overlap(file_bounds, selection_bounds) ==
    ~ \/ file_bounds.max_lat < selection_bounds.sw[1]
      \/ file_bounds.min_lat > selection_bounds.nw[1]
      \/ file_bounds.max_lon < selection_bounds.nw[2]
      \/ file_bounds.min_lon > selection_bounds.ne[2]

\* the test of the latitude alone
point_in_bounds_lat_only(point, selection_bounds) ==
    /\ selection_bounds.sw[1] <= point[1]
    /\ point[1] <= selection_bounds.nw[1]

\* DataManager._point_in_bounds
point_in_bounds(point, selection_bounds) ==
    /\ selection_bounds.sw[1] <= point[1]
    /\ point[1] <= selection_bounds.nw[1]
    /\ selection_bounds.nw[2] <= point[2]
    /\ point[2] <= selection_bounds.ne[2]

\* [(lat, lon) for lat, lon in points if _point_in_bounds(...)], from the
\* i-th point on
RECURSIVE points_inside(_, _, _)
points_inside(points, selection_bounds, i) ==
    IF i > Len(points) THEN <<>>
    ELSE (IF point_in_bounds(points[i], selection_bounds)
          THEN <<points[i]>> ELSE <<>>)
         \o points_inside(points, selection_bounds, i + 1)

\* DataManager.get_points_in_bounds : the loop over file_registry.values()
\* from the i-th record on
RECURSIVE get_points_in_bounds(_, _, _)
get_points_in_bounds(reg, selection_bounds, i) ==
    IF i > Len(reg) THEN <<>>
    ELSE (IF bounds_overlap(reg[i].v.bounds, selection_bounds)
          THEN points_inside(reg[i].v.points, selection_bounds, 1)
          ELSE <<>>)
         \o get_points_in_bounds(reg, selection_bounds, i + 1)

\* DataManager.get_points_in_bounds : the records, from the i-th on, for
\* which the list comprehension over file_data["points"] is evaluated
RECURSIVE files_scanned(_, _, _)
files_scanned(reg, selection_bounds, i) ==
    IF i > Len(reg) THEN <<>>
    ELSE (IF bounds_overlap(reg[i].v.bounds, selection_bounds)
          THEN <<reg[i].k>> ELSE <<>>)
         \o files_scanned(reg, selection_bounds, i + 1)

\* a deletion that takes the oldest record
DictDelHead(d, key) == Tail(d)

\* del self.file_registry[file_path]
DictDel(d, key) == SelectSeq(d, LAMBDA e : e.k # key)

\* add_file that removes the record of the path when points is empty
add_file_drops_record(reg, file_path, points) ==
    IF points = <<>> THEN DictDel(reg, file_path)
    ELSE DictSet(reg, file_path,
                 [points |-> points, bounds |-> calculate_bounds(points)])

\* add_file that widens the bounds of an existing record instead of
\* computing them from the new points
add_file_patching_bounds(reg, file_path, points) ==
    IF points = <<>> THEN reg
    ELSE IF file_path \in DictKeys(reg)
    THEN LET old == DictGet(reg, file_path).bounds
             new == calculate_bounds(points)
         IN  DictSet(reg, file_path,
                 [points |-> points,
                  bounds |-> [min_lat |-> PyMin(<<old.min_lat, new.min_lat>>),
                              max_lat |-> PyMax(<<old.max_lat, new.max_lat>>),
                              min_lon |-> PyMin(<<old.min_lon, new.min_lon>>),
                              max_lon |-> PyMax(<<old.max_lon, new.max_lon>>)]])
    ELSE DictSet(reg, file_path,
                 [points |-> points, bounds |-> calculate_bounds(points)])

\* DataManager.add_file : the registry it leaves; with empty points it
\* raises before the assignment
add_file(reg, file_path, points) ==
    IF points = <<>> THEN reg
    ELSE DictSet(reg, file_path,
                 [points |-> points, bounds |-> calculate_bounds(points)])

\* DataManager.add_file
AddFile(file_path, points) ==
    /\ file_registry' = add_file(file_registry, file_path, points)
    /\ d_last' = [DNoLast EXCEPT
                     !.op = "add_file", !.file_path = file_path,
                     !.points = points,
                     !.existed = file_path \in DictKeys(file_registry),
                     !.raised = IF points = <<>> THEN "ValueError" ELSE None]
    /\ UNCHANGED not_dvars

\* DataManager.remove_file
RemoveFile(file_path) ==
    /\ file_registry' = IF file_path \in DictKeys(file_registry)
                        THEN DictDel(file_registry, file_path)
                        ELSE file_registry
    /\ d_last' = [DNoLast EXCEPT
                     !.op = "remove_file", !.file_path = file_path,
                     !.existed = file_path \in DictKeys(file_registry)]
    /\ UNCHANGED not_dvars

\* a query that drops the records it skipped from the registry
GetPointsInBoundsPruning(selection_bounds) ==
    /\ d_last' = [DNoLast EXCEPT
                     !.op = "get_points_in_bounds",
                     !.selection = selection_bounds,
                     !.result = get_points_in_bounds(file_registry,
                                                     selection_bounds, 1),
                     !.scanned = files_scanned(file_registry,
                                               selection_bounds, 1)]
    /\ file_registry' =
           SelectSeq(file_registry,
                     LAMBDA e : bounds_overlap(e.v.bounds, selection_bounds))
    /\ UNCHANGED not_dvars

\* DataManager.get_points_in_bounds
GetPointsInBounds(selection_bounds) ==
    /\ d_last' = [DNoLast EXCEPT
                     !.op = "get_points_in_bounds",
                     !.selection = selection_bounds,
                     !.result = get_points_in_bounds(file_registry,
                                                     selection_bounds, 1),
                     !.scanned = files_scanned(file_registry,
                                               selection_bounds, 1)]
    /\ UNCHANGED file_registry
    /\ UNCHANGED not_dvars

----------------------------------------------------------------------------
(* gui/windows/main_window.py : MapWindow, and core/workers.py : FileWorker.
   A worker's process() runs on a pool thread; its signals are queued for
   the window and handled one at a time, in the order they were emitted,
   between the user's clicks. *)

\* g_last: op        the slot that ran
\*         file_path its argument
\*         raised    the exception that ended it, or None
GNoLast == [op |-> "init", file_path |-> None, raised |-> None]

\* list.remove(item) for an item of the list; del of a list element
RemoveAt(s, i) == SubSeq(s, 1, i - 1) \o SubSeq(s, i + 1, Len(s))

ListRemove(s, item) ==
    RemoveAt(s, CHOOSE i \in DOMAIN s :
                    s[i] = item /\ \A j \in 1..(i - 1) : s[j] # item)

InList(s, item) == \E i \in DOMAIN s : s[i] = item

\* the position of the first FileWidget of the layout with this path, 0 if
\* there is none
FirstWidget(widgets, file_path) ==
    IF \E i \in DOMAIN widgets : widgets[i].file_path = file_path
    THEN CHOOSE i \in DOMAIN widgets :
             /\ widgets[i].file_path = file_path
             /\ \A j \in 1..(i - 1) : widgets[j].file_path # file_path
    ELSE 0

\* MapWindow._start_file_processing on the window state s
start_file_processing(s, file_path) ==
    [s EXCEPT !.file_list = Append(@, file_path),
              !.loading_files = @ \cup {file_path},
              !.file_widgets = Append(@, [file_path |-> file_path,
                                          is_loaded |-> FALSE]),
              !.workers = Append(@, [file_path |-> file_path,
                                     pc |-> "process", points |-> <<>>]),
              !.generate_button = FALSE,
              !.add_file_btn = FALSE]

\* MapWindow.add_files : the loop over the files the dialog returned, from
\* the i-th on
RECURSIVE add_files(_, _, _)
add_files(s, files, i) ==
    IF i > Len(files) THEN s
    ELSE add_files(IF ~InList(s.file_list, files[i])
                   THEN start_file_processing(s, files[i]) ELSE s,
                   files, i + 1)

\* the cleanup unlocking the controls whatever is still loading
finalize_file_load_unlocking(s, file_path, success) ==
    LET i == FirstWidget(s.file_widgets, file_path)
        loading == s.loading_files \ {file_path}
    IN  [s EXCEPT !.loading_files = loading,
                  !.file_widgets =
                      IF i = 0 THEN @
                      ELSE IF success THEN [@ EXCEPT ![i].is_loaded = TRUE]
                      ELSE RemoveAt(@, i),
                  !.generate_button = TRUE,
                  !.add_file_btn = TRUE]

\* MapWindow._finalize_file_load on the window state s
finalize_file_load(s, file_path, success) ==
    LET i == FirstWidget(s.file_widgets, file_path)
        loading == s.loading_files \ {file_path}
    IN  [s EXCEPT !.loading_files = loading,
                  !.file_widgets =
                      IF i = 0 THEN @
                      ELSE IF success THEN [@ EXCEPT ![i].is_loaded = TRUE]
                      ELSE RemoveAt(@, i),
                  !.generate_button = IF loading = {} THEN TRUE ELSE @,
                  !.add_file_btn = IF loading = {} THEN TRUE ELSE @]

\* the window state as a record, and its assignment
Window ==
    [file_list |-> file_list, loading_files |-> loading_files,
     file_widgets |-> file_widgets, workers |-> workers,
     generate_button |-> generate_button, add_file_btn |-> add_file_btn]

SetWindow(s) ==
    /\ file_list' = s.file_list
    /\ loading_files' = s.loading_files
    /\ file_widgets' = s.file_widgets
    /\ workers' = s.workers
    /\ generate_button' = s.generate_button
    /\ add_file_btn' = s.add_file_btn

\* MapWindow.add_files : the user clicked "+" and the dialog returned files
AddFiles(files) ==
    /\ add_file_btn
    /\ SetWindow(add_files(Window, files, 1))
    /\ g_last' = [GNoLast EXCEPT !.op = "add_files"]
    /\ UNCHANGED <<signal_queue, dvars>>
    /\ UNCHANGED not_gvars

\* FileWorker.process up to its first emit: the parser returned points
\* (possibly none) or raised
ProcessParse(i, parsed, points) ==
    /\ workers[i].pc = "process"
    /\ IF parsed
       THEN /\ signal_queue' =
                  Append(signal_queue,
                         [sig |-> "finished",
                          file_path |-> workers[i].file_path,
                          points |-> points])
            /\ workers' = [workers EXCEPT ![i].pc = "emitted",
                                          ![i].points = points]
       ELSE /\ signal_queue' =
                  Append(signal_queue,
                         [sig |-> "error",
                          file_path |-> workers[i].file_path,
                          points |-> <<>>])
            /\ workers' = RemoveAt(workers, i)
    /\ UNCHANGED <<file_list, loading_files, file_widgets, add_file_btn,
                   generate_button, g_last, dvars>>
    /\ UNCHANGED not_gvars

\* FileWorker.process : the second self.finished.emit(file_path, points)
ProcessEmitAgain(i) ==
    /\ workers[i].pc = "emitted"
    /\ signal_queue' =
          Append(signal_queue,
                 [sig |-> "finished", file_path |-> workers[i].file_path,
                  points |-> workers[i].points])
    /\ workers' = RemoveAt(workers, i)
    /\ UNCHANGED <<file_list, loading_files, file_widgets, add_file_btn,
                   generate_button, g_last, dvars>>
    /\ UNCHANGED not_gvars

\* MapWindow._on_file_loaded : add_file raises on empty points and the slot
\* ends there
OnFileLoaded(file_path, points) ==
    /\ file_registry' = add_file(file_registry, file_path, points)
    /\ d_last' = [DNoLast EXCEPT
                     !.op = "add_file", !.file_path = file_path,
                     !.points = points,
                     !.existed = file_path \in DictKeys(file_registry),
                     !.raised = IF points = <<>> THEN "ValueError" ELSE None]
    /\ IF points = <<>>
       THEN /\ UNCHANGED <<file_list, loading_files, file_widgets, workers,
                           add_file_btn, generate_button>>
            /\ g_last' = [GNoLast EXCEPT !.op = "_on_file_loaded",
                                         !.file_path = file_path,
                                         !.raised = "ValueError"]
       ELSE /\ SetWindow(finalize_file_load(Window, file_path, TRUE))
            /\ g_last' = [GNoLast EXCEPT !.op = "_on_file_loaded",
                                         !.file_path = file_path]

\* MapWindow._on_file_error : file_list.remove raises when the path is not
\* in the list and the slot ends there
OnFileError(file_path) ==
    /\ IF InList(file_list, file_path)
       THEN /\ SetWindow(finalize_file_load(
                            [Window EXCEPT !.file_list =
                                              ListRemove(@, file_path)],
                            file_path, FALSE))
            /\ g_last' = [GNoLast EXCEPT !.op = "_on_file_error",
                                         !.file_path = file_path]
       ELSE /\ UNCHANGED <<file_list, loading_files, file_widgets, workers,
                           add_file_btn, generate_button>>
            /\ g_last' = [GNoLast EXCEPT !.op = "_on_file_error",
                                         !.file_path = file_path,
                                         !.raised = "ValueError"]
    /\ UNCHANGED dvars

\* the window handles the oldest queued signal
HandleSignal ==
    /\ signal_queue # <<>>
    /\ signal_queue' = Tail(signal_queue)
    /\ IF Head(signal_queue).sig = "finished"
       THEN OnFileLoaded(Head(signal_queue).file_path,
                         Head(signal_queue).points)
       ELSE OnFileError(Head(signal_queue).file_path)
    /\ UNCHANGED not_gvars

\* MapWindow.remove_file
WindowRemoveFile(file_path) ==
    IF file_path \in loading_files
    THEN /\ g_last' = [GNoLast EXCEPT !.op = "remove_file_loading",
                                      !.file_path = file_path]
         /\ UNCHANGED <<file_list, loading_files, file_widgets, workers,
                        signal_queue, add_file_btn, generate_button, dvars>>
         /\ UNCHANGED not_gvars
    ELSE LET i == FirstWidget(file_widgets, file_path)
             list == IF InList(file_list, file_path)
                     THEN ListRemove(file_list, file_path) ELSE file_list
         IN  /\ file_registry' = IF file_path \in DictKeys(file_registry)
                                 THEN DictDel(file_registry, file_path)
                                 ELSE file_registry
             /\ d_last' = [DNoLast EXCEPT
                              !.op = "remove_file", !.file_path = file_path,
                              !.existed =
                                  file_path \in DictKeys(file_registry)]
             /\ file_list' = list
             /\ generate_button' =
                   IF InList(file_list, file_path) /\ Len(list) = 0
                   THEN FALSE ELSE generate_button
             /\ file_widgets' = IF i = 0 THEN file_widgets
                                ELSE RemoveAt(file_widgets, i)
             /\ g_last' = [GNoLast EXCEPT !.op = "remove_file",
                                          !.file_path = file_path]
             /\ UNCHANGED <<loading_files, workers, signal_queue,
                            add_file_btn>>
             /\ UNCHANGED not_gvars

\* FileWidget.mousePressEvent : a click on a loaded widget emits clicked,
\* which is connected to MapWindow.remove_file
FileWidgetClicked(i) ==
    /\ file_widgets[i].is_loaded
    /\ WindowRemoveFile(file_widgets[i].file_path)

\* the state after construction, with files and requests tracked for the
\* given paths and keys
InitOver(paths, keys) ==
    /\ zoom_level = 12
    /\ pan_x = 0
    /\ pan_y = 0
    /\ width = MinWidth
    /\ height = MinHeight
    /\ memory_cache = <<>>
    /\ filtered_cache = <<>>
    /\ disk = [p \in paths |-> None]
    /\ pending_requests = {}
    /\ pending_filters = {}
    /\ thread_pool = {}
    /\ network = [k \in keys |-> 0]
    /\ fresh = [k \in keys |-> 0]
    /\ last = NoLast
    /\ is_panning = FALSE
    /\ last_mouse_pos = <<>>
    /\ m_zoom_level = 12
    /\ m_pan_x = 0
    /\ m_pan_y = 0
    /\ m_tile_cache = <<>>
    /\ m_pending_requests = {}
    /\ m_filter_workers = {}
    /\ m_filtered_cache = <<>>
    /\ m_current_filter = None
    /\ m_network = [k \in Keys |-> 0]
    /\ m_jobs = <<>>
    /\ m_last = MNoLast
    /\ file_registry = <<>>
    /\ d_last = DNoLast
    /\ file_list = <<>>
    /\ loading_files = {}
    /\ file_widgets = <<>>
    /\ workers = <<>>
    /\ signal_queue = <<>>
    /\ add_file_btn = TRUE
    /\ generate_button = FALSE
    /\ g_last = GNoLast
    /\ f_last = FNoLast
    /\ k_last = KNoLast

Init == InitOver(Paths, Keys)

DoGetTile == \E t \in TileCoords : GetTile(t[1], t[2], t[3])

DoHandleTileResponse ==
    \E key \in Keys, outcome \in {"ok", "undecodable", "error"},
       image \in Images, save_ok \in BOOLEAN :
        HandleTileResponse(key, outcome, image, save_ok)

DoZoomTo ==
    \E n \in ZoomTargets, c \in ZoomCenters : ZoomTo(n, c[1], c[2])

Next == DoGetTile \/ DoHandleTileResponse \/ DoZoomTo

Spec == Init /\ [][Next]_vars

\* the fairness the event loop gives: every reply that arrives is handled
FairSpec ==
    /\ Spec
    /\ \A key \in Keys :
         WF_vars(\E outcome \in {"ok", "undecodable", "error"},
                    image \in Images, save_ok \in BOOLEAN :
                     HandleTileResponse(key, outcome, image, save_ok))

----------------------------------------------------------------------------
(* Specification of the zoom handlers of gui/widgets/map_view.py *)

\* targets handed to zoom_to by a caller
ZoomAnyTargets == {-1, 5, 25}

\* event.angleDelta().y() of the wheel events
WheelDeltas == {-120, 0, 120}

\* mouse positions of the wheel events and zoom centres of zoom_to
MousePositions == {<<0, 0>>, <<640, 360>>}

\* the pan offsets explored are whole pixels, within this many pixels of the
\* origin
MaxPanPixels == 1280

PanInRange(z, px, py) ==
    /\ px % Unit(z) = 0
    /\ py % Unit(z) = 0
    /\ px <= MaxPanPixels * Unit(z)
    /\ -px <= MaxPanPixels * Unit(z)
    /\ py <= MaxPanPixels * Unit(z)
    /\ -py <= MaxPanPixels * Unit(z)

DoZoomToAny ==
    \E n \in ZoomAnyTargets, c \in MousePositions :
        ZoomTo(n, c[1], c[2]) /\ PanInRange(zoom_level', pan_x', pan_y')

DoZoomIn == ZoomIn /\ PanInRange(zoom_level', pan_x', pan_y')

DoZoomOut == ZoomOut /\ PanInRange(zoom_level', pan_x', pan_y')

DoWheelEvent ==
    \E delta \in WheelDeltas, c \in MousePositions :
        WheelEvent(delta, c[1], c[2]) /\ PanInRange(zoom_level', pan_x', pan_y')

ZoomNext == DoZoomToAny \/ DoZoomIn \/ DoZoomOut \/ DoWheelEvent

ZoomSpec == Init /\ [][ZoomNext]_vars

----------------------------------------------------------------------------
(* Specification of the zoom handlers of gui/widgets/map_view.py with tiles
   in the cache: the tile at the origin is asked for at the lowest and the
   highest level and its request is answered. *)

\* the tiles asked for, each at its own level
EdgeCoords == {<<0, 0, 0>>, <<0, 0, MaxZoom>>}

EdgeKeys == {tile_key(t[1], t[2], t[3]) : t \in EdgeCoords}

EdgePaths == {get_tile_path(t[1], t[2], t[3]) : t \in EdgeCoords}

\* targets handed to zoom_to: below the range, the initial level, above the
\* range
EdgeZoomTargets == {-1, 12, 25}

EdgeInit == InitOver(EdgePaths, EdgeKeys)

DoGetTileAtLevel ==
    \E t \in EdgeCoords :
        t[3] = zoom_level /\ GetTile(t[1], t[2], t[3])

DoHandleEdgeResponse ==
    \E key \in EdgeKeys, save_ok \in BOOLEAN :
        HandleTileResponse(key, "ok", "imgA", save_ok)

DoZoomToEdge ==
    \E n \in EdgeZoomTargets :
        ZoomTo(n, 0, 0) /\ PanInRange(zoom_level', pan_x', pan_y')

EdgeNext ==
    \/ DoGetTileAtLevel
    \/ DoHandleEdgeResponse
    \/ DoZoomToEdge
    \/ DoZoomIn
    \/ DoZoomOut

EdgeSpec == EdgeInit /\ [][EdgeNext]_vars

----------------------------------------------------------------------------
(* Specification of the mouse handlers of gui/widgets/map_view.py, with the
   tiles of the level shown asked for and their requests answered. *)

DoGetTileShown ==
    \E t \in TileCoords :
        t[3] = zoom_level /\ GetTile(t[1], t[2], t[3])

DoHandleShownResponse ==
    \E key \in Keys, save_ok \in BOOLEAN :
        HandleTileResponse(key, "ok", "imgA", save_ok)

DoMousePressEvent ==
    \E button \in Buttons, pos \in MousePositions :
        MousePressEvent(button, pos)

DoMouseReleaseEvent == \E button \in Buttons : MouseReleaseEvent(button)

DoMouseMoveEvent ==
    \E pos \in MousePositions :
        MouseMoveEvent(pos) /\ PanInRange(zoom_level', pan_x', pan_y')

PanNext ==
    \/ DoGetTileShown
    \/ DoHandleShownResponse
    \/ DoMousePressEvent
    \/ DoMouseReleaseEvent
    \/ DoMouseMoveEvent

PanSpec == Init /\ [][PanNext]_vars

----------------------------------------------------------------------------
(* Specification of the viewport pass of gui/widgets/map_view.py: the widget
   with nothing cached and nothing pending, at some zoom level, pan offset
   and size, is painted and resized. *)

\* zoom levels painted: the whole map narrower than the viewport (0, 1, 2)
\* and far wider (12)
PaintZooms == {0, 1, 2, 12}

\* pan offsets, in pixels, of either axis
PaintPans == {-300, -256, -100, 0, 256, 1500}

\* widget sizes, not below the minimum size
PaintSizes == {<<MinWidth, MinHeight>>, <<1500, 800>>}

\* requests and files are tracked for the tiles with indices up to this one
MaxPaintIndex == 8

PaintCoords ==
    {<<x, y, z>> : x \in 0..MaxPaintIndex, y \in 0..MaxPaintIndex,
                   z \in PaintZooms}

PaintKeys == {tile_key(t[1], t[2], t[3]) : t \in PaintCoords}

PaintPaths == {get_tile_path(t[1], t[2], t[3]) : t \in PaintCoords}

PaintInit ==
    /\ zoom_level \in PaintZooms
    /\ \E p \in PaintPans : pan_x = p * Unit(zoom_level)
    /\ \E p \in PaintPans : pan_y = p * Unit(zoom_level)
    /\ width = MinWidth
    /\ height = MinHeight
    /\ memory_cache = <<>>
    /\ filtered_cache = <<>>
    /\ disk = [p \in PaintPaths |-> None]
    /\ pending_requests = {}
    /\ pending_filters = {}
    /\ thread_pool = {}
    /\ network = [k \in PaintKeys |-> 0]
    /\ fresh = [k \in PaintKeys |-> 0]
    /\ last = NoLast
    /\ is_panning = FALSE
    /\ last_mouse_pos = <<>>
    /\ m_zoom_level = 12
    /\ m_pan_x = 0
    /\ m_pan_y = 0
    /\ m_tile_cache = <<>>
    /\ m_pending_requests = {}
    /\ m_filter_workers = {}
    /\ m_filtered_cache = <<>>
    /\ m_current_filter = None
    /\ m_network = [k \in Keys |-> 0]
    /\ m_jobs = <<>>
    /\ m_last = MNoLast
    /\ file_registry = <<>>
    /\ d_last = DNoLast
    /\ file_list = <<>>
    /\ loading_files = {}
    /\ file_widgets = <<>>
    /\ workers = <<>>
    /\ signal_queue = <<>>
    /\ add_file_btn = TRUE
    /\ generate_button = FALSE
    /\ g_last = GNoLast
    /\ f_last = FNoLast
    /\ k_last = KNoLast

DoPaintEvent == PaintEvent

DoResizeEvent == \E s \in PaintSizes : ResizeEvent(s[1], s[2])

PaintNext == DoPaintEvent \/ DoResizeEvent

PaintSpec == PaintInit /\ [][PaintNext]_vars

----------------------------------------------------------------------------
(* Properties of gui/widgets/map_view.py *)

\* the disk path of the tile a cache key names (handle_tile_response:
\* zoom, x, y = map(int, key.split("_")))
PathOfKey(key) ==
    LET parts == Split(key)
    IN  get_tile_path(StrToInt(parts[2]), StrToInt(parts[3]),
                      StrToInt(parts[1]))

\* key is in neither memory map and has no file on disk
Uncached(key) ==
    /\ key \notin DictKeys(filtered_cache)
    /\ key \notin DictKeys(memory_cache)
    /\ disk[PathOfKey(key)] = None

\* C1: a get_tile/request_tile for a key that is in pending_requests issues
\* no network request, so one GET is issued per pending key.
C1_NoDuplicateRequest ==
    [][\A key \in Keys :
          (key \in pending_requests /\ last'.op = "get_tile"
              /\ last'.key = key)
          => (network' = network /\ ~last'.issued)]_vars

\* a second request_tile for a key whose only request is still unanswered
C1_Witness ==
    /\ last.op = "get_tile"
    /\ ~last.issued
    /\ last.key \in pending_requests
    /\ Uncached(last.key)
    /\ network[last.key] = 1

\* C2 (as claimed): after a successful, decodable reply for key the image is
\* in the memory cache under key, on disk under the key's path (unless the
\* file write itself failed) and key is not pending.
C2_Original ==
    [][(last'.op = "handle_tile_response" /\ last'.outcome = "ok"
            /\ ~last'.write_failed)
       => /\ last'.key \in DictKeys(memory_cache')
          /\ DictGet(memory_cache', last'.key) = last'.stored
          /\ disk'[PathOfKey(last'.key)] = last'.stored
          /\ last'.key \notin pending_requests']_vars

\* C3: a reply that is an error or does not decode removes the key from
\* pending_requests and adds nothing to the memory maps or the disk; a
\* get_tile for a key that is uncached and not pending issues a request.
C3_FailedReplyThenRetry ==
    [][/\ (last'.op = "handle_tile_response" /\ last'.outcome # "ok")
          => /\ last'.key \notin pending_requests'
             /\ memory_cache' = memory_cache
             /\ filtered_cache' = filtered_cache
             /\ disk' = disk
       /\ \A key \in Keys :
            (last'.op = "get_tile" /\ last'.key = key /\ Uncached(key)
                /\ key \notin pending_requests)
            => /\ last'.issued
               /\ last'.ret = None
               /\ network'[key] = network[key] + 1
               /\ key \in pending_requests']_vars

\* get_tile right after a failed reply for the same key has issued a request
C3_Witness ==
    /\ last.op = "get_tile"
    /\ last.retry
    /\ last.issued
    /\ last.key \in pending_requests

\* C4 (as claimed): every key in pending_requests eventually leaves it.
C4_Original ==
    \A key \in Keys :
        (key \in pending_requests) ~> (key \notin pending_requests)

\* C5 (as claimed): storing a new key into a full memory cache that was
\* filled from empty evicts exactly the first-inserted key and keeps the
\* others, the new key included.
C5_Original ==
    [][(last'.stored # None /\ last'.key \notin DictKeys(memory_cache)
            /\ Len(memory_cache) = max_cache_size /\ filtered_cache = <<>>)
       => DictKeys(memory_cache') =
             (DictKeys(memory_cache) \ {memory_cache[1].k})
                 \cup {last'.key}]_vars

\* C6: the memory cache never holds more than max_cache_size entries.
C6_MemoryBounded == Len(memory_cache) <= max_cache_size

\* the memory cache is full right after a reply was stored
C6_Witness ==
    /\ Len(memory_cache) = max_cache_size
    /\ last.op = "handle_tile_response"
    /\ last.stored # None

\* C7 (as claimed): after tile_cache[k] = t the memory tier holds t under k.
C7_Original ==
    [][(last'.stored # None)
       => /\ last'.key \in DictKeys(memory_cache')
          /\ DictGet(memory_cache', last'.key) = last'.stored]_vars

\* C9 (as claimed): get_tile returns the filtered variant when one is
\* cached; else, when the base tile is cached (memory or disk), it returns
\* the base tile and starts a filter job for the key; else it returns
\* absent and a fetch for the key is under way.
C9_Original ==
    [][\A key \in Keys :
          (last'.op = "get_tile" /\ last'.key = key)
          => IF key \in DictKeys(filtered_cache)
             THEN last'.ret = DictGet(filtered_cache, key)
             ELSE IF key \in DictKeys(memory_cache)
             THEN /\ last'.ret = DictGet(memory_cache, key)
                  /\ \E j \in thread_pool' \ thread_pool : j.key = key
             ELSE IF disk[PathOfKey(key)] # None
             THEN /\ last'.ret = disk[PathOfKey(key)]
                  /\ \E j \in thread_pool' \ thread_pool : j.key = key
             ELSE /\ last'.ret = None
                  /\ key \in pending_requests']_vars

\* C12: a successful reply for a key that is not in pending_requests any more
\* (its request predates a cache clear) is stored like any other reply, and
\* the get_tile that follows a cache clear issues a request for an uncached
\* key even when an older request for that key is still unanswered.
C12_StaleReplyAndRerequest ==
    [][\A key \in Keys :
          /\ (last'.op = "handle_tile_response" /\ last'.key = key
                 /\ last'.outcome = "ok" /\ ~last'.raised
                 /\ key \notin pending_requests)
             => /\ key \in DictKeys(memory_cache')
                /\ DictGet(memory_cache', key) = last'.stored
                /\ (last'.write_failed
                       \/ disk'[PathOfKey(key)] = last'.stored)
          /\ (last.op = "zoom_to" /\ last'.op = "get_tile"
                 /\ last'.key = key /\ disk[PathOfKey(key)] = None)
             => /\ last'.issued
                /\ network'[key] = network[key] + 1]_vars

\* a reply for a key was stored while a second request for the same key,
\* issued on the other side of a cache clear, is still unanswered
C12_Witness ==
    /\ last.op = "handle_tile_response"
    /\ last.outcome = "ok"
    /\ ~last.raised
    /\ last.key \in DictKeys(memory_cache)
    /\ network[last.key] = 1

\* C13: zoom_level is an integer in [0, 19] in every reachable state.
C13_ZoomInRange == zoom_level \in 0..MaxZoom

\* zoom_to was asked for a level outside [0, 19] and the level is at a limit
C13_Witness ==
    /\ last.op \in {"zoom_to", "zoom_to_noop"}
    /\ zoom_level \in {0, MaxZoom}

\* a pan offset in whole pixels
Px(v, z) == v \div Unit(z)

\* c - p2 = (c - p) * 2^(z2 - z), in pixels, for whole-pixel offsets p at
\* level z and p2 at level z2
CenterKept(c, p, z, p2, z2) ==
    IF z2 > z
    THEN c - Px(p2, z2) = (c - Px(p, z)) * 2 ^ (z2 - z)
    ELSE (c - Px(p2, z2)) * 2 ^ (z - z2) = c - Px(p, z)

\* C14: after zoom_to changes the level from z to z' around (cx, cy),
\* cx - pan_x' = (cx - pan_x) * 2^(z' - z) and likewise for y: the world
\* point under the zoom centre stays under it.
C14_CenterFixed ==
    [][\A n \in ZoomAnyTargets \cup {zoom_level - 1, zoom_level + 1},
          c \in MousePositions :
          (ZoomTo(n, c[1], c[2]) /\ zoom_level' # zoom_level)
             => /\ pan_x % Unit(zoom_level) = 0
                /\ pan_y % Unit(zoom_level) = 0
                /\ pan_x' % Unit(zoom_level') = 0
                /\ pan_y' % Unit(zoom_level') = 0
                /\ CenterKept(c[1], pan_x, zoom_level, pan_x', zoom_level')
                /\ CenterKept(c[2], pan_y, zoom_level, pan_y', zoom_level')]_vars

\* the level went from 5 to 6 around (640, 360) with the map panned
C14_Witness ==
    /\ last.op = "zoom_to"
    /\ last.zoom_from = 5
    /\ zoom_level = 6
    /\ last.center = <<640, 360>>
    /\ pan_x # -640 * Unit(6)

\* x and y are tile indices of zoom level z
ValidTile(x, y, z) ==
    /\ 0 <= x /\ x <= 2 ^ z - 1
    /\ 0 <= y /\ y <= 2 ^ z - 1

\* C16: every tile the viewport pass asks get_tile for at zoom z has
\* 0 <= x <= 2^z - 1 and 0 <= y <= 2^z - 1, and every key in
\* pending_requests has indices valid for its zoom.
C16_TilesInRange ==
    /\ \A i \in DOMAIN last.asked :
           /\ last.asked[i][3] = zoom_level
           /\ ValidTile(last.asked[i][1], last.asked[i][2], last.asked[i][3])
    /\ \A key \in pending_requests :
           LET parts == Split(key)
           IN  ValidTile(StrToInt(parts[2]), StrToInt(parts[3]),
                         StrToInt(parts[1]))

\* a pass over a map narrower than the viewport asked for all four tiles of
\* level 1 and requested them
C16_Witness ==
    /\ last.op = "paintEvent"
    /\ zoom_level = 1
    /\ pan_x = 0
    /\ pan_y = 0
    /\ Len(last.asked) = 4
    /\ Cardinality(pending_requests) = 4

\* the pixels [i * 256, (i + 1) * 256) of tile index i meet the pixels
\* [lo, hi) of the viewport; lo and hi count 1/Unit(z) pixel
Overlaps(i, lo, hi, z) ==
    /\ i * tile_size * Unit(z) < hi
    /\ (i + 1) * tile_size * Unit(z) > lo

\* C17: every tile with indices in [0, 2^z - 1] whose 256x256 square
\* intersects the viewport rectangle is among the tiles the viewport pass
\* hands to get_tile.
C17_RangeCovers ==
    (last.op = "paintEvent") =>
        LET z == zoom_level
            xs == {x \in 0..(2 ^ z - 1) :
                      Overlaps(x, -pan_x, -pan_x + width * Unit(z), z)}
            ys == {y \in 0..(2 ^ z - 1) :
                      Overlaps(y, -pan_y, -pan_y + height * Unit(z), z)}
        IN  \A x \in xs, y \in ys :
                \E i \in DOMAIN last.asked : last.asked[i] = <<x, y, z>>

\* a pass at level 12 whose viewport starts inside tile column 1 and tile
\* row 0
C17_Witness ==
    /\ last.op = "paintEvent"
    /\ zoom_level = 12
    /\ pan_x = -300 * Unit(12)
    /\ pan_y = -100 * Unit(12)
    /\ Len(last.asked) > 0
    /\ last.asked[1] = <<1, 0, 12>>

\* C28 (as claimed): get_tile consults the tiers in order: a memory hit is
\* returned without reading disk or issuing a request; on a memory miss with
\* a disk hit the disk tile is returned and is in the memory tier afterwards;
\* only when both tiers miss is a request issued, and None is returned.
C28_Original ==
    [][(last'.op = "get_tile")
          => LET key == last'.key
                 on_disk == disk[PathOfKey(key)]
             IN  IF key \in DictKeys(memory_cache)
                 THEN /\ last'.ret = DictGet(memory_cache, key)
                      /\ ~last'.read_disk
                      /\ ~last'.issued
                 ELSE IF on_disk # None
                 THEN /\ last'.read_disk
                      /\ last'.ret = on_disk
                      /\ key \in DictKeys(memory_cache')
                      /\ DictGet(memory_cache', key) = on_disk
                      /\ ~last'.issued
                 ELSE /\ last'.read_disk
                      /\ last'.ret = None]_vars

\* the level zoom_to's clamping arrives at for a requested level
C29_Clamped(n) == IF n < 0 THEN 0 ELSE IF n > MaxZoom THEN MaxZoom ELSE n

\* C29: a zoom_to whose clamped target is the current level, zoom_in at
\* level 19 and zoom_out at level 0 among them, changes neither the pan, the
\* level, the base and filtered memory caches, the pending requests nor the
\* tracked filter jobs.
C29_NoopZoomChangesNothing ==
    [][(/\ last'.op \in {"zoom_to", "zoom_to_noop"}
        /\ C29_Clamped(last'.target) = zoom_level)
          => UNCHANGED <<zoom_level, pan_x, pan_y, memory_cache,
                         filtered_cache, pending_requests,
                         pending_filters>>]_vars

\* zoom_in was called at level 19 with a tile in the memory cache
C29_Witness ==
    /\ last.op = "zoom_to_noop"
    /\ last.target = MaxZoom + 1
    /\ zoom_level = MaxZoom
    /\ memory_cache # <<>>

\* zoom_out was called at level 0 with a request pending
C29_WitnessLow ==
    /\ last.op = "zoom_to_noop"
    /\ last.target = -1
    /\ zoom_level = 0
    /\ pending_requests # {}

\* C30: a mouse move while the left button is held, from the last mouse
\* position to the event's position, adds the difference (dx, dy) to
\* pan_x and pan_y and leaves zoom_level, the base and filtered memory
\* caches, the disk tier and pending_requests unchanged.
C30_Original ==
    [][(last'.op = "mouseMoveEvent" /\ is_panning)
          => /\ pan_x' = pan_x
                   + (last'.pos[1] - last_mouse_pos[1]) * Unit(zoom_level)
             /\ pan_y' = pan_y
                   + (last'.pos[2] - last_mouse_pos[2]) * Unit(zoom_level)
             /\ UNCHANGED <<zoom_level, memory_cache, filtered_cache, disk,
                            pending_requests>>]_vars

\* C31: clear_cache, through clear_memory, empties the base and the
\* filtered memory map and changes no file of the disk tier: for every
\* tile, TileCache.get_tile returns after the clear what it returned before.
C31_ClearKeepsDisk ==
    [][(last'.op = "zoom_to")
          => /\ memory_cache' = <<>>
             /\ filtered_cache' = <<>>
             /\ disk' = disk
             /\ \A t \in TileCoords :
                    disk_get_tile(disk', t[1], t[2], t[3])
                        = disk_get_tile(disk, t[1], t[2], t[3])]_vars

\* a clear dropped a tile from memory while that tile's file is on disk
C31_Witness ==
    /\ last.op = "zoom_to"
    /\ last.dropped > 0
    /\ memory_cache = <<>>
    /\ \E t \in TileCoords : disk_get_tile(disk, t[1], t[2], t[3]) # None

\* C33: between handlers no tile key is both in pending_requests and in the
\* memory cache, whatever the order of get_tile calls, replies (stale ones
\* too), promotions from disk and cache clears.
C33_PendingNotInMemory ==
    \A key \in Keys :
        ~(key \in pending_requests /\ key \in DictKeys(memory_cache))

\* a reply stored its tile while a second request for the same key, issued
\* on the other side of a clear, is still unanswered
C33_Witness ==
    /\ last.op = "handle_tile_response"
    /\ last.outcome = "ok"
    /\ ~last.raised
    /\ last.key \in DictKeys(memory_cache)
    /\ last.key \notin pending_requests
    /\ network[last.key] > 0

\* C34 (as claimed): for every tile key at most one of the requests issued
\* since the most recent cache clear is unanswered, whatever the order of
\* visibility passes, replies to requests older than the clear and replies
\* to requests issued after it.
C34_Original == \A key \in Keys : fresh[key] <= 1

\* C35: a tile file written to the disk tier stays there, and a get_tile
\* for a key whose file is on disk issues no network request, after any
\* number of cache clears, zoom changes and evictions from memory.
C35_NoRequestOnceOnDisk ==
    [][/\ \A p \in DOMAIN disk : (disk[p] # None) => (disk'[p] # None)
       /\ (last'.op = "get_tile" /\ disk[PathOfKey(last'.key)] # None)
             => /\ ~last'.issued
                /\ network' = network
                /\ pending_requests' = pending_requests]_vars

\* after a zoom change cleared the memory tier, get_tile read a tile from
\* disk and issued nothing
C35_Witness ==
    /\ last.op = "get_tile"
    /\ last.read_disk
    /\ disk[PathOfKey(last.key)] # None
    /\ ~last.issued
    /\ zoom_level # 12

\* C36 (as claimed): a reply stored under a key that is already in the
\* memory cache replaces that key's tile and removes no other entry of the
\* base or the filtered memory map, at capacity too.
C36_Original ==
    [][(/\ last'.op = "handle_tile_response"
        /\ last'.outcome = "ok"
        /\ last'.key \in DictKeys(memory_cache))
          => /\ DictKeys(memory_cache') = DictKeys(memory_cache)
             /\ DictGet(memory_cache', last'.key) = last'.stored
             /\ \A k \in DictKeys(memory_cache) \ {last'.key} :
                    DictGet(memory_cache', k) = DictGet(memory_cache, k)
             /\ filtered_cache' = filtered_cache]_vars

----------------------------------------------------------------------------
(* Specification of main.py *)

\* tiles the main.py viewport asks for
MainTileCoords == {<<0, 0, 12>>, <<1, 0, 12>>}

MainKeys == {tile_key(t[1], t[2], t[3]) : t \in MainTileCoords}

DoMGetTile == \E t \in MainTileCoords : MGetTile(t[1], t[2], t[3])

DoMHandleTileResponse ==
    \E key \in MainKeys, outcome \in {"ok", "undecodable", "error"},
       image \in MainImages : MHandleTileResponse(key, outcome, image)

DoProcessFilteredTile == \E j \in DOMAIN m_jobs : ProcessFilteredTile(j)

DoSetFilter == \E f \in FilterNames : SetFilter(f)

DoMZoomTo ==
    \E n \in ZoomTargets, c \in ZoomCenters : MZoomTo(n, c[1], c[2])

MainNext ==
    \/ DoMGetTile
    \/ DoMHandleTileResponse
    \/ DoProcessFilteredTile
    \/ DoSetFilter
    \/ DoMZoomTo

MainSpec == Init /\ [][MainNext]_vars

----------------------------------------------------------------------------
(* Properties of main.py *)

\* the tile key inside f"{key}_{filter}"
TileKeyOf(fkey) == SubSeq(fkey, 1, Len(fkey) - 2)

\* number of jobs in flight for one (tile key, filter name) pair
JobsFor(jobs, fkey) == SumOver(jobs, {j \in DOMAIN jobs : j.key = fkey})

\* C8 (as claimed): every filtered variant in the cache belongs to a tile
\* key that is in the base memory cache.
C8_Original ==
    \A fkey \in DOMAIN m_filtered_cache :
        TileKeyOf(fkey) \in DOMAIN m_tile_cache

\* C10 (as claimed): at most one filter job is in flight for a
\* (tile key, filter name) pair.
C10_Original ==
    \A fkey \in JobKeys(m_jobs) : JobsFor(m_jobs, fkey) <= 1
\* C11 (as claimed): set_filter with a new filter empties the filtered cache,
\* and the result of a job that was started under another filter than the
\* current one is not put into the filtered cache.
C11_Original ==
    [][/\ (m_last'.op = "set_filter") => DOMAIN m_filtered_cache' = {}
       /\ \A j \in DOMAIN m_jobs :
            (m_last'.op = "process_filtered_tile" /\ m_last'.key = j.key
                /\ j.filter_name # m_current_filter)
            => j.key \notin DOMAIN m_filtered_cache']_vars

\* C15 (as claimed): after a zoom_to that changes the zoom level the base
\* memory cache, the filtered-variant cache, pending_requests and the
\* filter-job tracking set are all empty.
C15_Original ==
    [][(m_last'.op = "zoom_to")
          => /\ m_tile_cache' = <<>>
             /\ DOMAIN m_filtered_cache' = {}
             /\ m_pending_requests' = {}
             /\ m_filter_workers' = {}]_vars

----------------------------------------------------------------------------
(* Specification of core/data_manager.py *)

\* file paths handed to add_file and remove_file
FilePaths == {"a.gpx", "b.gpx"}

\* point lists handed to add_file: empty, inside the selection <<0, 2, 0, 2>>,
\* on its edge, outside it, with a repeated point, across its border
PointLists ==
    {<<>>,
     <<<<1, 1>>>>,
     <<<<2, 0>>, <<1, 1>>, <<1, 1>>>>,
     <<<<5, 5>>, <<1, 5>>>>,
     <<<<0, 0>>, <<5, 5>>, <<1, 5>>>>}

\* the selection with the given south, north, west and east bounds, as
\* MapView.get_selection_bounds builds it
Selection(south, north, west, east) ==
    [nw |-> <<north, west>>, ne |-> <<north, east>>,
     sw |-> <<south, west>>, se |-> <<south, east>>]

\* selections handed to get_points_in_bounds
Selections ==
    {Selection(0, 2, 0, 2), Selection(1, 1, 1, 1), Selection(0, 5, 0, 5),
     Selection(3, 4, 3, 4)}

DoAddFile == \E f \in FilePaths, points \in PointLists : AddFile(f, points)

DoRemoveFile == \E f \in FilePaths : RemoveFile(f)

DoGetPointsInBounds == \E s \in Selections : GetPointsInBounds(s)

DataNext == DoAddFile \/ DoRemoveFile \/ DoGetPointsInBounds

DataSpec == Init /\ [][DataNext]_vars

----------------------------------------------------------------------------
(* Properties of core/data_manager.py *)

\* C18: add_file with an empty point sequence raises ValueError and leaves
\* the file registry unchanged, the record already stored under the same
\* path included.
C18_EmptyPointsRejected ==
    [][(d_last'.op = "add_file" /\ d_last'.points = <<>>)
          => /\ d_last'.raised = "ValueError"
             /\ file_registry' = file_registry]_vars

\* add_file was called with no points for a path that has a record, and the
\* record is still there
C18_Witness ==
    /\ d_last.op = "add_file"
    /\ d_last.points = <<>>
    /\ d_last.existed
    /\ d_last.raised = "ValueError"
    /\ d_last.file_path \in DictKeys(file_registry)

\* C19: every record of the file registry has bounds equal to the minimum
\* and maximum latitude and longitude of its own stored points.
C19_BoundsOfOwnPoints ==
    \A i \in DOMAIN file_registry :
        LET points == file_registry[i].v.points
            bounds == file_registry[i].v.bounds
            lats == {points[j][1] : j \in DOMAIN points}
            lons == {points[j][2] : j \in DOMAIN points}
        IN  /\ points # <<>>
            /\ bounds.min_lat \in lats /\ \A v \in lats : bounds.min_lat <= v
            /\ bounds.max_lat \in lats /\ \A v \in lats : bounds.max_lat >= v
            /\ bounds.min_lon \in lons /\ \A v \in lons : bounds.min_lon <= v
            /\ bounds.max_lon \in lons /\ \A v \in lons : bounds.max_lon >= v

\* a path that had a record was added again with points that span less than
\* the points of another record
C19_Witness ==
    /\ d_last.op = "add_file"
    /\ d_last.existed
    /\ d_last.points = <<<<1, 1>>>>
    /\ DictGet(file_registry, d_last.file_path).bounds.max_lat = 1
    /\ Len(file_registry) = 2

\* the points of all records, in the order of the records and of the points
\* within each, whose latitude lies between south and north and whose
\* longitude lies between west and east
RECURSIVE PointsBetween(_, _, _, _, _)
PointsBetween(reg, south, north, west, east) ==
    IF reg = <<>> THEN <<>>
    ELSE SelectSeq(Head(reg).v.points,
                   LAMBDA p : /\ south <= p[1] /\ p[1] <= north
                              /\ west <= p[2] /\ p[2] <= east)
         \o PointsBetween(Tail(reg), south, north, west, east)

\* C20: get_points_in_bounds returns exactly the stored points whose latitude
\* lies between the selection's south and north bound and whose longitude
\* lies between its west and east bound, in file insertion order and then
\* point order, repeated points kept.
C20_PointsInSelection ==
    (d_last.op = "get_points_in_bounds") =>
        d_last.result = PointsBetween(file_registry,
                                      d_last.selection.se[1],
                                      d_last.selection.ne[1],
                                      d_last.selection.sw[2],
                                      d_last.selection.se[2])

\* one file fully inside the selection, added second, and one fully outside:
\* the query returns the inside file's points, the repeated one twice
C20_Witness ==
    /\ d_last.op = "get_points_in_bounds"
    /\ d_last.selection = Selection(0, 2, 0, 2)
    /\ Len(file_registry) = 2
    /\ file_registry[1].v.points = <<<<5, 5>>, <<1, 5>>>>
    /\ file_registry[2].v.points = <<<<2, 0>>, <<1, 1>>, <<1, 1>>>>
    /\ d_last.result = <<<<2, 0>>, <<1, 1>>, <<1, 1>>>>

\* the smallest box around points lies wholly to one side of the rectangle
\* south..north, west..east
BoxDisjoint(points, south, north, west, east) ==
    \/ \A i \in DOMAIN points : points[i][1] < south
    \/ \A i \in DOMAIN points : points[i][1] > north
    \/ \A i \in DOMAIN points : points[i][2] < west
    \/ \A i \in DOMAIN points : points[i][2] > east

\* the records whose box is not disjoint from the rectangle
NotDisjoint(reg, south, north, west, east) ==
    SelectSeq(reg, LAMBDA e : ~BoxDisjoint(e.v.points, south, north,
                                            west, east))

\* C21: for a file whose bounding box is disjoint from the selection
\* rectangle, get_points_in_bounds runs no per-point test on its point list
\* and contributes none of its points: the result is made of the other
\* files' points alone.
C21_DisjointFileSkipped ==
    (d_last.op = "get_points_in_bounds") =>
        LET south == d_last.selection.se[1]
            north == d_last.selection.ne[1]
            west == d_last.selection.sw[2]
            east == d_last.selection.se[2]
        IN  /\ \A i \in DOMAIN file_registry :
                   BoxDisjoint(file_registry[i].v.points, south, north,
                               west, east)
                      => \A j \in DOMAIN d_last.scanned :
                             d_last.scanned[j] # file_registry[i].k
            /\ d_last.result =
                   PointsBetween(NotDisjoint(file_registry, south, north,
                                             west, east),
                                 south, north, west, east)

\* a query over two files, the first with its box beside the selection, the
\* second scanned
C21_Witness ==
    /\ d_last.op = "get_points_in_bounds"
    /\ d_last.selection = Selection(0, 2, 0, 2)
    /\ Len(file_registry) = 2
    /\ file_registry[1].v.points = <<<<5, 5>>, <<1, 5>>>>
    /\ d_last.scanned = <<file_registry[2].k>>

\* C22: get_points_in_bounds leaves the file registry as it was (paths,
\* points, bounds and order), and a query that follows an identical query
\* directly returns the same sequence.
C22_QueryReadOnly ==
    [][(d_last'.op = "get_points_in_bounds")
          => /\ file_registry' = file_registry
             /\ (d_last.op = "get_points_in_bounds"
                   /\ d_last.selection = d_last'.selection)
                    => d_last'.result = d_last.result]_vars

\* a query over a registry of two files that returned points and skipped a
\* file
C22_Witness ==
    /\ d_last.op = "get_points_in_bounds"
    /\ Len(file_registry) = 2
    /\ d_last.result # <<>>
    /\ Len(d_last.scanned) = 1

\* C23: remove_file for a path without a record leaves the registry
\* unchanged; for a path with a record it deletes exactly that record and
\* keeps the other records and their order; a query that follows returns the
\* points of the other records only.
C23_RemoveExactlyOne ==
    [][/\ (d_last'.op = "remove_file")
          => LET path == d_last'.file_path
             IN  IF \A i \in DOMAIN file_registry :
                        file_registry[i].k # path
                 THEN file_registry' = file_registry
                 ELSE \E i \in DOMAIN file_registry :
                        /\ file_registry[i].k = path
                        /\ file_registry' =
                              SubSeq(file_registry, 1, i - 1)
                                 \o SubSeq(file_registry, i + 1,
                                           Len(file_registry))
       /\ (d_last.op = "remove_file"
             /\ d_last'.op = "get_points_in_bounds")
          => /\ \A i \in DOMAIN file_registry' :
                   file_registry'[i].k # d_last.file_path
             /\ d_last'.result =
                   PointsBetween(file_registry',
                                 d_last'.selection.se[1],
                                 d_last'.selection.ne[1],
                                 d_last'.selection.sw[2],
                                 d_last'.selection.se[2])]_vars

\* the second of two records was removed and the first is still there
C23_Witness ==
    /\ d_last.op = "remove_file"
    /\ d_last.file_path = "b.gpx"
    /\ d_last.existed
    /\ Len(file_registry) = 1
    /\ file_registry[1].k = "a.gpx"

----------------------------------------------------------------------------
(* Specification of gui/windows/main_window.py with core/workers.py *)

\* the files the open dialog returns
WindowFiles == {<<"a.gpx">>, <<"b.gpx">>, <<"a.gpx", "b.gpx">>}

\* the point lists a parsed file yields
WindowPointLists == {<<>>, <<<<1, 1>>>>}

\* workers in the thread pool at one time
MaxWorkers == 2

\* signals queued for the window at one time
MaxSignals == 2

DoAddFiles ==
    \E files \in WindowFiles :
        AddFiles(files) /\ Len(workers') <= MaxWorkers

DoProcessParse ==
    \E i \in DOMAIN workers, parsed \in BOOLEAN,
       points \in WindowPointLists :
        Len(signal_queue) < MaxSignals /\ ProcessParse(i, parsed, points)

DoProcessEmitAgain ==
    \E i \in DOMAIN workers :
        Len(signal_queue) < MaxSignals /\ ProcessEmitAgain(i)

DoHandleSignal == HandleSignal

DoFileWidgetClicked == \E i \in DOMAIN file_widgets : FileWidgetClicked(i)

WindowNext ==
    \/ DoAddFiles
    \/ DoProcessParse
    \/ DoProcessEmitAgain
    \/ DoHandleSignal
    \/ DoFileWidgetClicked

WindowSpec == Init /\ [][WindowNext]_vars

\* the window with remove_file also called for a file that is loading
DoWindowRemoveFile == \E f \in loading_files : WindowRemoveFile(f)

\* signals queued for the window at one time while the lock is followed
MaxLockSignals == 1

DoLockProcessParse ==
    \E i \in DOMAIN workers, parsed \in BOOLEAN,
       points \in WindowPointLists :
        Len(signal_queue) < MaxLockSignals /\ ProcessParse(i, parsed, points)

DoLockProcessEmitAgain ==
    \E i \in DOMAIN workers :
        Len(signal_queue) < MaxLockSignals /\ ProcessEmitAgain(i)

LockNext ==
    \/ DoAddFiles
    \/ DoLockProcessParse
    \/ DoLockProcessEmitAgain
    \/ DoHandleSignal
    \/ DoFileWidgetClicked
    \/ DoWindowRemoveFile

LockSpec == Init /\ [][LockNext]_vars

----------------------------------------------------------------------------
(* Properties of gui/windows/main_window.py *)

\* C24 (as claimed): a path has a record in the DataManager only between the
\* completion of its load and its removal by the user; file_list holds a
\* path from the user's add until remove_file is handled for it, so every
\* path with a record is in file_list.
C24_Original ==
    \A i \in DOMAIN file_registry : InList(file_list, file_registry[i].k)

\* C25 (as claimed): every load that was started leaves loading_files and
\* the controls are unlocked once no load is in progress: when no worker is
\* left and no signal is queued, loading_files is empty and the add-file
\* control is enabled.
C25_Original ==
    (workers = <<>> /\ signal_queue = <<>>)
        => (loading_files = {} /\ add_file_btn)

----------------------------------------------------------------------------
(* Specification of MapFilter.apply_filter *)

\* channel values of the pixels
ChannelValues == {0, 100, 255}

\* the images handed to apply_filter: the empty image and the images of one
\* opaque pixel
FilterImages ==
    {<<>>} \cup {<<<<r, g, b, 255>>>> : r \in ChannelValues,
                                        g \in ChannelValues,
                                        b \in ChannelValues}

\* the filter names handed to apply_filter: two keys of FILTERS and two
\* names that are no key
FilterInputs == {"None", "Sepia", "Blur", ""}

DoApplyFilter ==
    \E image \in FilterImages, filter_name \in FilterInputs,
       fails \in BOOLEAN :
        ApplyFilter(image, filter_name, fails)

FilterNext == DoApplyFilter

FilterSpec == Init /\ [][FilterNext]_vars

----------------------------------------------------------------------------
(* Properties of map_filters.py *)

\* C26: apply_filter lets no exception out; with filter "None", with a name
\* that is no key of FILTERS and with a transform that raises it returns the
\* input image unchanged.
C26_FallbackToInput ==
    (f_last.op = "apply_filter") =>
        /\ f_last.raised = None
        /\ (\/ f_last.filter_name = "None"
            \/ f_last.filter_name \notin FILTERS
            \/ f_last.failed)
              => f_last.ret = f_last.image

\* the sepia transform of a grey pixel raised and the grey pixel came back
C26_Witness ==
    /\ f_last.op = "apply_filter"
    /\ f_last.filter_name = "Sepia"
    /\ f_last.failed
    /\ f_last.image = <<<<100, 100, 100, 255>>>>
    /\ f_last.ret = <<<<100, 100, 100, 255>>>>
\* every point of every record, from the i-th record on, put to the
\* point-in-bounds test alone
RECURSIVE C37_ScanAll(_, _, _)
C37_ScanAll(reg, selection_bounds, i) ==
    IF i > Len(reg) THEN <<>>
    ELSE points_inside(reg[i].v.points, selection_bounds, 1)
         \o C37_ScanAll(reg, selection_bounds, i + 1)

\* C37: the bounding-box pre-filter never changes the result of a query:
\* for every registry and every rectangular selection the query returns the
\* sequence that testing every point of every file would return.
C37_PrefilterKeepsResult ==
    (d_last.op = "get_points_in_bounds") =>
        d_last.result = C37_ScanAll(file_registry, d_last.selection, 1)

\* a query whose pre-filter skipped one of two files and let through a file
\* that has no point in the selection
C37_Witness ==
    /\ d_last.op = "get_points_in_bounds"
    /\ d_last.selection = Selection(3, 4, 3, 4)
    /\ Len(file_registry) = 2
    /\ Len(d_last.scanned) = 1
    /\ d_last.result = <<>>

----------------------------------------------------------------------------
(* Specification of the naming of tiles in gui/widgets/map_view.py *)

\* zoom, x and y of the tiles named: numbers whose digits run together
\* unless they are separated
KeyNumbers == {0, 1, 11}

KeyTriples == KeyNumbers \X KeyNumbers \X KeyNumbers

DoNameTiles == \E a \in KeyTriples, b \in KeyTriples : NameTiles(a, b)

KeyNext == DoNameTiles

KeySpec == Init /\ [][KeyNext]_vars

----------------------------------------------------------------------------
(* Properties of the naming of tiles *)

\* C32: distinct triples (zoom, x, y) of non-negative integers have
\* distinct memory-cache keys and distinct file names in the disk tier, and
\* the (zoom, x, y) handle_tile_response parses from a key is the triple
\* the key was built from.
C32_TileIdentityUnique ==
    (k_last.op = "name_tiles")
        => /\ (k_last.a # k_last.b)
                 => /\ k_last.key_a # k_last.key_b
                    /\ k_last.path_a # k_last.path_b
           /\ k_last.parsed_a = k_last.a

\* two tiles whose numbers have the same digits in a row were named
C32_Witness ==
    /\ k_last.op = "name_tiles"
    /\ k_last.a = <<1, 11, 0>>
    /\ k_last.b = <<11, 1, 0>>
    /\ k_last.key_a = <<"1", "_", "1", "1", "_", "0">>
    /\ k_last.path_b = <<"tile_", "1", "1", "_", "1", "_", "0", ".png">>

\* C38: while a file load is in progress (loading_files is not empty) the
\* add-file and the generate control are disabled, and remove_file for a
\* path that is still loading changes neither file_list nor the
\* DataManager's registry.
C38_LockedWhileLoading ==
    [][/\ (loading_files' # {}) => (~add_file_btn' /\ ~generate_button')
       /\ (/\ g_last'.op \in {"remove_file", "remove_file_loading"}
           /\ g_last'.file_path \in loading_files)
             => UNCHANGED <<file_list, file_registry>>]_vars

\* remove_file was called for the one of two files that is still loading,
\* after the other file's load completed
C38_Witness ==
    /\ g_last.op = "remove_file_loading"
    /\ g_last.file_path \in loading_files
    /\ Len(file_list) = 2
    /\ Len(file_registry) = 1
    /\ ~add_file_btn
    /\ ~generate_button

====
